---- MODULE Spec2Model ----
(***************************************************************************)
(* A model of the fastest-lap C API (src/src/main/c/fastestlapc.cpp): the  *)
(* five process-wide tables of named variables, the exception boundary of  *)
(* every public operation and the persistent warm-start caches; and of the *)
(* optimal-laptime NLP builder                                             *)
(* (src/src/core/applications/optimal_laptime.hpp).                        *)
(***************************************************************************)
EXTENDS Integers, Sequences, FiniteSets, TLC

VARIABLES
    table_kart_6dof,    \* name -> kart vehicle
    table_f1_3dof,      \* name -> f1 vehicle
    table_track,        \* name -> track
    table_scalar,       \* name -> scalar
    table_vector,       \* name -> vector (a sequence)
    warm_start,         \* vehicle type -> cached Optimal_laptime
    ret,                \* what the last public operation handed to its caller
    law,                \* progress of a copy; move; delete sequence
    saved,              \* history: the last trajectory each type was asked to save
    opt,                \* an Optimal_laptime object and the step its constructor is at
    nlp,                \* the problem it hands to the solver, and the solution
    sim                 \* the last run of compute_optimal_laptime: options, seeds, result

vars == << table_kart_6dof, table_f1_3dof, table_track, table_scalar, table_vector,
           warm_start, ret, law, saved, opt, nlp, sim >>

-----------------------------------------------------------------------------
(* Bounds of the model *)

\* longest vector create_vector is called with
MaxLen == 1
\* largest number of variables the callers keep in the tables, the outputs
\* of optimal_laptime not counted
MaxEntries == 2
\* largest buffer size print_variable_to_string is called with
MaxChar == 3
\* largest number of mesh nodes optimal_laptime is called with
MaxPoints == 3
\* largest number of nodes of a mesh an Optimal_laptime is constructed on
MaxNodes == 3
\* number of points the solver may end at
MaxSol == 2
\* number of initial conditions the options of an open simulation choose from
MaxStart == 2

\* Names the callers use for variables
Names == {"a", "x", "laptime"}
\* Values the callers store in scalars and vectors
Vals == {1, 25}

-----------------------------------------------------------------------------
(* The tables *)

EmptyTable == [n \in {} |-> 0]

\* std::unordered_map::insert: an existing key keeps its value
Insert(t, name, v) ==
    IF name \in DOMAIN t THEN t
    ELSE [k \in (DOMAIN t) \cup {name} |-> IF k = name THEN v ELSE t[k]]

\* std::unordered_map::erase
Erase(t, name) == [k \in (DOMAIN t) \ {name} |-> t[k]]

TableNames == {"kart", "f1", "track", "scalar", "vector"}

\* The five tables as one record
Reg == [kart |-> table_kart_6dof, f1 |-> table_f1_3dof, track |-> table_track,
        scalar |-> table_scalar, vector |-> table_vector]

EmptyReg == [t \in TableNames |-> EmptyTable]

\* The tables a name is present in
TablesOf(reg, name) == {t \in TableNames : name \in DOMAIN reg[t]}

\* The number of entries of the five tables
Size(reg) ==
    Cardinality(DOMAIN reg.kart) + Cardinality(DOMAIN reg.f1) + Cardinality(DOMAIN reg.track)
    + Cardinality(DOMAIN reg.scalar) + Cardinality(DOMAIN reg.vector)

\* The outcome of the body of an operation: the tables it leaves, and the
\* exception that left it ("none": it ran to its end)
Done(reg) == [reg |-> reg, exc |-> "none"]
Raise(reg, e) == [reg |-> reg, exc |-> e]

check_variable_exists_in_tables_novector(reg, name) ==
    IF name \in DOMAIN reg.kart THEN "fastest_lap"
    ELSE IF name \in DOMAIN reg.f1 THEN "fastest_lap"
    ELSE IF name \in DOMAIN reg.track THEN "fastest_lap"
    ELSE IF name \in DOMAIN reg.scalar THEN "fastest_lap"
    ELSE "none"

\* The exception check_variable_exists_in_tables leaves with, or "none"
check_variable_exists_in_tables(reg, name) ==
    IF name \in DOMAIN reg.kart THEN "fastest_lap"
    ELSE IF name \in DOMAIN reg.f1 THEN "fastest_lap"
    ELSE IF name \in DOMAIN reg.track THEN "fastest_lap"
    ELSE IF name \in DOMAIN reg.scalar THEN "fastest_lap"
    ELSE IF name \in DOMAIN reg.vector THEN "fastest_lap"
    ELSE "none"

-----------------------------------------------------------------------------
(* Files the callers name *)

\* Vehicle databases: the root attribute "type" of each; nofile.xml cannot be
\* opened
DatabaseFiles == {"kart.xml", "f1.xml", "bike.xml", "nofile.xml"}
vehicle_type_of(file) ==
    CASE file = "kart.xml" -> "kart-6dof"
      [] file = "f1.xml"   -> "f1-3dof"
      [] OTHER             -> "motorbike"
\* Track files: the root attribute "format" of each
TrackFiles == {"track.xml", "kml.xml", "nofile.xml"}
track_format_of(file) == IF file \in {"track.xml", "circuit.xml"} THEN "discrete" ELSE "kml"
\* Xml_document(file, true) throws when the file cannot be read
Readable(file) == file # "nofile.xml"

\* A vehicle: the track its two curvilinear cars are on (0: none yet) and the
\* parameter set_parameter writes
NewVehicle == [road_ad |-> 0, road_sc |-> 0, param |-> 0]
\* The track read from a file: track.xml and circuit.xml hold different roads
Track_by_polynomial(file) == IF file = "track.xml" THEN 1 ELSE 2

-----------------------------------------------------------------------------
(* Creating operations *)

create_vehicle_from_xml(reg, vehicle_name, database_file) ==
    LET chk == check_variable_exists_in_tables(reg, vehicle_name) IN
    IF chk # "none" THEN Raise(reg, chk)
    ELSE IF ~Readable(database_file) THEN Raise(reg, "lion")
    ELSE IF vehicle_type_of(database_file) = "kart-6dof" THEN
        IF vehicle_name \in DOMAIN reg.kart THEN Raise(reg, "fastest_lap")
        ELSE Done([reg EXCEPT !.kart = Insert(@, vehicle_name, NewVehicle)])
    ELSE IF vehicle_type_of(database_file) = "f1-3dof" THEN
        IF vehicle_name \in DOMAIN reg.f1 THEN Raise(reg, "fastest_lap")
        ELSE Done([reg EXCEPT !.f1 = Insert(@, vehicle_name, NewVehicle)])
    ELSE Raise(reg, "fastest_lap")

create_vehicle_empty(reg, vehicle_name, vehicle_type) ==
    LET chk == check_variable_exists_in_tables(reg, vehicle_name) IN
    IF chk # "none" THEN Raise(reg, chk)
    ELSE IF vehicle_type = "kart-6dof" THEN Raise(reg, "fastest_lap")
    ELSE IF vehicle_type = "f1-3dof" THEN
        IF vehicle_name \in DOMAIN reg.f1 THEN Raise(reg, "fastest_lap")
        ELSE Done([reg EXCEPT !.f1 = Insert(@, vehicle_name, NewVehicle)])
    ELSE Raise(reg, "fastest_lap")

create_track_from_xml(reg, name, track_file) ==
    LET chk == check_variable_exists_in_tables(reg, name) IN
    IF chk # "none" THEN Raise(reg, chk)
    ELSE IF ~Readable(track_file) THEN Raise(reg, "lion")
    ELSE IF track_format_of(track_file) # "discrete" THEN Raise(reg, "fastest_lap")
    ELSE Done([reg EXCEPT !.track = Insert(@, name, Track_by_polynomial(track_file))])

\* The vector {data, data+n}
create_vector(reg, name, n, data) ==
    LET chk == check_variable_exists_in_tables(reg, name) IN
    IF chk # "none" THEN Raise(reg, chk)
    ELSE Done([reg EXCEPT !.vector = Insert(@, name, SubSeq(data, 1, n))])

create_scalar(reg, name, value) ==
    LET chk == check_variable_exists_in_tables(reg, name) IN
    IF chk # "none" THEN Raise(reg, chk)
    ELSE Done([reg EXCEPT !.scalar = Insert(@, name, value)])

-----------------------------------------------------------------------------
(* Copy, move, delete *)

\* The table copy_variable and move_variable find old_name in: the first of
\* kart, f1, track, vector, scalar that holds it, or "none"
FirstTableOf(reg, name) ==
    IF name \in DOMAIN reg.kart THEN "kart"
    ELSE IF name \in DOMAIN reg.f1 THEN "f1"
    ELSE IF name \in DOMAIN reg.track THEN "track"
    ELSE IF name \in DOMAIN reg.vector THEN "vector"
    ELSE IF name \in DOMAIN reg.scalar THEN "scalar"
    ELSE "none"

copy_variable(reg, old_name, new_name) ==
    LET chk == check_variable_exists_in_tables(reg, new_name)
        t   == FirstTableOf(reg, old_name)
    IN  IF chk # "none" THEN Raise(reg, chk)
        ELSE IF t = "none" THEN Raise(reg, "fastest_lap")
        ELSE Done([reg EXCEPT ![t] = Insert(@, new_name, reg[t][old_name])])

move_variable_erases_new(reg, old_name, new_name) ==
    LET chk == check_variable_exists_in_tables(reg, new_name)
        t   == FirstTableOf(reg, old_name)
    IN  IF chk # "none" THEN Raise(reg, chk)
        ELSE IF t = "none" THEN Raise(reg, "fastest_lap")
        ELSE Done([reg EXCEPT ![t] = Erase(Insert(@, new_name, reg[t][old_name]), new_name)])

move_variable(reg, old_name, new_name) ==
    LET chk == check_variable_exists_in_tables(reg, new_name)
        t   == FirstTableOf(reg, old_name)
    IN  IF chk # "none" THEN Raise(reg, chk)
        ELSE IF t = "none" THEN Raise(reg, "fastest_lap")
        ELSE Done([reg EXCEPT ![t] = Erase(Insert(@, new_name, reg[t][old_name]), old_name)])

delete_variables(reg) == Done(EmptyReg)

delete_variable(reg, variable_name) ==
    LET n_ocurrences == Cardinality(TablesOf(reg, variable_name))
        t == FirstTableOf(reg, variable_name)
    IN  IF n_ocurrences > 1 THEN Raise(reg, "fastest_lap")
        ELSE IF t = "none" THEN Raise(reg, "fastest_lap")
        ELSE Done([reg EXCEPT ![t] = Erase(@, variable_name)])

\* name.find(prefix) == 0, over the names and prefixes of the model
Tails == {"", "a", "x", "laptime", "aptime"}
StartsWith(name, prefix) == \E tail \in Tails : name = prefix \o tail

delete_variable_by_prefix_generic(table, prefix) ==
    [k \in {n \in DOMAIN table : ~StartsWith(n, prefix)} |-> table[k]]

delete_variables_by_prefix(reg, prefix) ==
    Done([t \in TableNames |-> delete_variable_by_prefix_generic(reg[t], prefix)])

-----------------------------------------------------------------------------
(* The exception boundary *)

\* What a handler list does with the exception that leaves the try block:
\* the lines it prints and what goes on to the caller.  "abort" is not an
\* exception: the process is gone.
CATCH_lion_swallowed(e) ==
    CASE e = "fastest_lap" -> [lines |-> <<"[Fastest lap exception] -> ">>, thrown |-> e]
      [] e = "lion"        -> [lines |-> <<"[Lion exception] -> ">>, thrown |-> "none"]
      [] e = "std"         -> [lines |-> <<"[C++ exception] -> ">>, thrown |-> e]
      [] OTHER             -> [lines |-> << >>, thrown |-> e]

CATCH(e) ==
    CASE e = "fastest_lap" -> [lines |-> <<"[Fastest lap exception] -> ">>, thrown |-> e]
      [] e = "lion"        -> [lines |-> <<"[Lion exception] -> ">>, thrown |-> e]
      [] e = "std"         -> [lines |-> <<"[C++ exception] -> ">>, thrown |-> e]
      [] OTHER             -> [lines |-> << >>, thrown |-> e]

\* What the caller of a public operation wrapped in try { } CATCH() sees
Returned(op, obs, exc, written) ==
    [op |-> op, obs |-> obs, raised |-> exc,
     thrown |-> CATCH(exc).thrown, lines |-> CATCH(exc).lines, written |-> written]

\* vehicle_equations has no try block and an empty body
ReturnedBare(op) ==
    [op |-> op, obs |-> << >>, raised |-> "none",
     thrown |-> "none", lines |-> << >>, written |-> 0]

-----------------------------------------------------------------------------
(* Printing *)

\* The text operator<< writes.  The formats of vectors and of the XML of
\* vehicles and tracks are the library's; only their lengths matter here.
print_variable_to_std_string(reg, variable_name) ==
    IF variable_name \in DOMAIN reg.kart THEN [text |-> "<vehicle/>", exc |-> "none"]
    ELSE IF variable_name \in DOMAIN reg.f1 THEN [text |-> "<vehicle/>", exc |-> "none"]
    ELSE IF variable_name \in DOMAIN reg.track THEN [text |-> "<track/>", exc |-> "none"]
    ELSE IF variable_name \in DOMAIN reg.vector
        THEN [text |-> ToString(reg.vector[variable_name]), exc |-> "none"]
    ELSE IF variable_name \in DOMAIN reg.scalar
        THEN [text |-> ToString(reg.scalar[variable_name]), exc |-> "none"]
    ELSE [text |-> "", exc |-> "fastest_lap"]

\* static_cast<size_t>(n_char) < size: a negative n_char converts to a value
\* of at least 2^63, above the size of every string
SizeTLess(n_char, size) == n_char >= 0 /\ n_char < size

\* The exception print_variable_to_string leaves with and the number of
\* bytes strcpy writes to str_out (the text and its terminating NUL)
print_variable_to_string(reg, n_char, variable_name) ==
    LET p == print_variable_to_std_string(reg, variable_name) IN
    IF p.exc # "none" THEN [exc |-> p.exc, written |-> 0]
    ELSE IF SizeTLess(n_char, Len(p.text)) THEN [exc |-> "fastest_lap", written |-> 0]
    ELSE [exc |-> "none", written |-> Len(p.text) + 1]

-----------------------------------------------------------------------------
(* Operations on a vehicle *)

\* The vehicle table an operation finds vehicle_name in, kart first
VehicleTableOf(reg, vehicle_name) ==
    IF vehicle_name \in DOMAIN reg.kart THEN "kart"
    ELSE IF vehicle_name \in DOMAIN reg.f1 THEN "f1"
    ELSE "none"

\* Properties the callers ask for.  The vehicle handed to
\* vehicle_get_property_generic is the curvilinear_scalar member, never the
\* type stored in the table, so "throttle" takes the final else of its
\* if constexpr chain, and so do "brake-bias" and the vertical forces Fz_*.
Properties == {"x", "throttle", "brake-bias", "Fz_fl", "nosuch"}
vehicle_get_property_generic(property_name) ==
    IF property_name = "x" THEN "none"
    ELSE IF property_name = "throttle" THEN "fastest_lap"
    ELSE IF property_name = "brake-bias" THEN "fastest_lap"
    ELSE IF property_name = "Fz_fl" THEN "fastest_lap"
    ELSE "fastest_lap"

vehicle_get_property(reg, vehicle_name, property_name) ==
    IF vehicle_name \in DOMAIN reg.kart THEN Raise(reg, vehicle_get_property_generic(property_name))
    ELSE IF vehicle_name \in DOMAIN reg.f1 THEN Raise(reg, vehicle_get_property_generic(property_name))
    ELSE Raise(reg, "fastest_lap")

\* What a call into the vehicle or solver library ends with: it returns, or
\* it throws one of its own or of the standard library's exceptions
LibOutcomes == {"none", "lion", "std"}

\* xml()->save(file_name) fails when the file cannot be written
vehicle_save_as_xml(reg, vehicle_name, lib) ==
    IF vehicle_name \in DOMAIN reg.kart THEN Raise(reg, lib)
    ELSE IF vehicle_name \in DOMAIN reg.f1 THEN Raise(reg, lib)
    ELSE Raise(reg, "fastest_lap")

\* set_parameter fails for a parameter the vehicle does not have
vehicle_set_parameter(reg, vehicle_name, lib, value) ==
    IF vehicle_name \in DOMAIN reg.f1 THEN
        IF lib = "none" THEN Done([reg EXCEPT !.f1[vehicle_name].param = value])
        ELSE Raise(reg, lib)
    ELSE Done(reg)

\* add_parameter fails for a path the vehicle does not have; the parameters a
\* vehicle has declared are not part of the state of this model
vehicle_declare_new_constant_parameter(reg, vehicle_name, lib) ==
    IF vehicle_name \in DOMAIN reg.f1 THEN Raise(reg, lib)
    ELSE IF vehicle_name \in DOMAIN reg.kart THEN Raise(reg, lib)
    ELSE Raise(reg, "fastest_lap")

vehicle_declare_new_variable_parameter(reg, vehicle_name, lib) ==
    IF vehicle_name \in DOMAIN reg.f1 THEN Raise(reg, lib)
    ELSE IF vehicle_name \in DOMAIN reg.kart THEN Raise(reg, lib)
    ELSE Raise(reg, "fastest_lap")

\* change_track on both curvilinear cars of a vehicle; table_track.at throws
\* std::out_of_range before the first car is touched
change_ad_track_only(reg, t, vehicle_name, track_name) ==
    IF track_name \notin DOMAIN reg.track THEN Raise(reg, "std")
    ELSE Done([reg EXCEPT ![t][vehicle_name].road_ad = reg.track[track_name]])

change_both_tracks(reg, t, vehicle_name, track_name) ==
    IF track_name \notin DOMAIN reg.track THEN Raise(reg, "std")
    ELSE Done([reg EXCEPT ![t][vehicle_name].road_ad = reg.track[track_name],
                          ![t][vehicle_name].road_sc = reg.track[track_name]])

\* compute_propagation works on a copy of the car: lib is how
\* Crank_nicolson::take_step ends
propagate_vehicle(reg, vehicle_name, track_name, use_circuit, lib) ==
    LET t == VehicleTableOf(reg, vehicle_name) IN
    IF t = "none" THEN Done(reg)
    ELSE IF use_circuit THEN
        LET c == change_both_tracks(reg, t, vehicle_name, track_name) IN
        IF c.exc # "none" THEN c
        ELSE Raise(c.reg, lib)
    ELSE Raise(reg, lib)

gg_diagram(reg, vehicle_name, lib) ==
    LET t == VehicleTableOf(reg, vehicle_name) IN
    IF t = "none" THEN Done(reg)
    ELSE Raise(reg, lib)

vehicle_change_track(reg, vehicle_name, track_name) ==
    LET t == VehicleTableOf(reg, vehicle_name) IN
    IF t = "none" THEN Done(reg)
    ELSE change_both_tracks(reg, t, vehicle_name, track_name)

-----------------------------------------------------------------------------
(* Optimal laptime through the C API *)

VehicleTypes == {"kart", "f1"}

\* An Optimal_laptime as the warm-start cache keeps it: the size of its mesh
\* (0: default constructed)
EmptyTrajectory == [n |-> 0]

\* The names of Integral_quantities::names
Integral_quantities_names == {"energy"}

\* The element options/output_variables: its prefix and its variables; a
\* document without the element keeps the default prefix
OutputRequests ==
    { [prefix |-> "run/", variables |-> << >>],
      [prefix |-> "", variables |-> <<"laptime", "x">>],
      [prefix |-> "", variables |-> <<"brake-bias", "nosuch">>],
      [prefix |-> "run/", variables |-> <<"integral_quantities.energy">>] }

\* The options document of optimal_laptime; the documents that ask for
\* output variables are the ones that ask for the XML file
OLOptions ==
    { [well_formed |-> TRUE, warm_start |-> w, save_warm_start |-> c,
       write_xml |-> r.variables # << >>, prefix |-> r.prefix, variables |-> r.variables] :
        w \in BOOLEAN, c \in BOOLEAN, r \in OutputRequests }
    \cup {[well_formed |-> FALSE, warm_start |-> FALSE, save_warm_start |-> TRUE,
           write_xml |-> TRUE, prefix |-> "run/", variables |-> << >>]}

\* The options of a call with an empty options document
DefaultOptions ==
    [well_formed |-> TRUE, warm_start |-> FALSE, save_warm_start |-> FALSE,
     write_xml |-> FALSE, prefix |-> "run/", variables |-> << >>]

\* The documents that differ in their output variables only
OutputOptions ==
    { [DefaultOptions EXCEPT !.prefix = r.prefix, !.variables = r.variables] :
        r \in OutputRequests }

\* The laptime, the integral quantity and the per-node value of every
\* trajectory
LaptimeOf(traj) == 25
IntegralOf(traj) == 1
NodeValue == 1

\* What reading q[i] past the end of the trajectory can do: end the process,
\* or hand back whatever is in memory
PastTheEnd == {[abort |-> TRUE, value |-> 0]} \cup [abort : {FALSE}, value : Vals]
NoRead == [abort |-> FALSE, value |-> 0]

\* variable_name.find("integral_quantities.") == 0, over the names of the model
is_integral_quantity(variable_name) ==
    \E tail \in Integral_quantities_names \cup {"", "nosuch"} :
        variable_name = "integral_quantities." \o tail

\* (6.2) the loop over conf.variables_to_save
RECURSIVE save_outputs(_, _, _, _, _, _, _)
save_outputs(reg, t, output_variables_prefix, variables, traj, n_points, ub) ==
    IF variables = << >> THEN Done(reg)
    ELSE
        LET variable_name == Head(variables)
            key == output_variables_prefix \o variable_name
            data == [i \in 1..n_points |-> IF i <= traj.n THEN NodeValue ELSE ub.value]
        IN  IF key \in DOMAIN reg.scalar THEN Raise(reg, "fastest_lap")
            ELSE IF key \in DOMAIN reg.vector THEN Raise(reg, "fastest_lap")
            ELSE IF variable_name = "laptime" THEN
                save_outputs([reg EXCEPT !.scalar = Insert(@, key, LaptimeOf(traj))],
                             t, output_variables_prefix, Tail(variables), traj, n_points, ub)
            ELSE IF is_integral_quantity(variable_name) THEN
                IF \A q \in Integral_quantities_names :
                        variable_name # "integral_quantities." \o q
                    THEN Raise(reg, "fastest_lap")
                ELSE save_outputs([reg EXCEPT !.scalar = Insert(@, key, IntegralOf(traj))],
                                  t, output_variables_prefix, Tail(variables), traj, n_points,
                                  ub)
            ELSE IF n_points > 0 /\ variable_name = "brake-bias" /\ t = "kart"
                THEN Raise(reg, "fastest_lap")
            ELSE IF n_points > 0 /\ variable_name \notin {"x", "brake-bias"}
                THEN Raise(reg, "fastest_lap")
            ELSE IF n_points > traj.n /\ ub.abort THEN Raise(reg, "abort")
            ELSE save_outputs([reg EXCEPT !.vector = Insert(@, key, data)],
                              t, output_variables_prefix, Tail(variables), traj, n_points, ub)

Optimal_laptime_ignores_status(n, lib) ==
    IF n <= 1 THEN [traj |-> EmptyTrajectory, exc |-> "std"]
    ELSE [traj |-> [n |-> n], exc |-> "none"]

\* A constructor that takes any mesh, the empty one included
Optimal_laptime_accepts_empty_mesh(n, lib) ==
    IF lib # "none" THEN [traj |-> EmptyTrajectory, exc |-> lib]
    ELSE [traj |-> [n |-> n], exc |-> "none"]

\* The constructor of Optimal_laptime builds and solves the problem: it
\* throws for a mesh of fewer than two nodes, and when the solver (lib) fails
Optimal_laptime(n, lib) ==
    IF n <= 1 THEN [traj |-> EmptyTrajectory, exc |-> "std"]
    ELSE IF lib # "none" THEN [traj |-> EmptyTrajectory, exc |-> lib]
    ELSE [traj |-> [n |-> n], exc |-> "none"]

compute_optimal_laptime_always_saves(reg, ws, t, vehicle_name, track_name, n_points, o, lib, ub) ==
    IF ~o.well_formed
        THEN [reg |-> reg, ws |-> ws, exc |-> "lion", traj |-> EmptyTrajectory, xml |-> FALSE]
    ELSE
        LET c == change_both_tracks(reg, t, vehicle_name, track_name)
            opt_laptime == Optimal_laptime(IF o.warm_start THEN ws[t].n ELSE n_points, lib)
            out == save_outputs(c.reg, t, o.prefix, o.variables, opt_laptime.traj, n_points, ub)
        IN  IF opt_laptime.exc # "none"
                THEN [reg |-> c.reg, ws |-> ws, exc |-> opt_laptime.exc, traj |-> opt_laptime.traj,
                      xml |-> FALSE]
            ELSE IF out.exc # "none"
                THEN [reg |-> out.reg, ws |-> ws, exc |-> out.exc, traj |-> opt_laptime.traj,
                      xml |-> o.write_xml]
            ELSE [reg |-> out.reg, exc |-> "none", traj |-> opt_laptime.traj, xml |-> o.write_xml,
                  ws |-> [ws EXCEPT ![t] = opt_laptime.traj]]

compute_optimal_laptime(reg, ws, t, vehicle_name, track_name, n_points, o, lib, ub) ==
    IF ~o.well_formed
        THEN [reg |-> reg, ws |-> ws, exc |-> "lion", traj |-> EmptyTrajectory, xml |-> FALSE]
    ELSE
        LET c == change_both_tracks(reg, t, vehicle_name, track_name)
            opt_laptime == Optimal_laptime(IF o.warm_start THEN ws[t].n ELSE n_points, lib)
            out == save_outputs(c.reg, t, o.prefix, o.variables, opt_laptime.traj, n_points, ub)
        IN  IF opt_laptime.exc # "none"
                THEN [reg |-> c.reg, ws |-> ws, exc |-> opt_laptime.exc, traj |-> opt_laptime.traj,
                      xml |-> FALSE]
            ELSE IF out.exc # "none"
                THEN [reg |-> out.reg, ws |-> ws, exc |-> out.exc, traj |-> opt_laptime.traj,
                      xml |-> o.write_xml]
            ELSE [reg |-> out.reg, exc |-> "none", traj |-> opt_laptime.traj, xml |-> o.write_xml,
                  ws |-> IF o.save_warm_start THEN [ws EXCEPT ![t] = opt_laptime.traj] ELSE ws]

optimal_laptime(reg, ws, vehicle_name, track_name, n_points, o, lib, ub) ==
    LET t == VehicleTableOf(reg, vehicle_name) IN
    IF t = "none"
        THEN [reg |-> reg, ws |-> ws, exc |-> "none", traj |-> EmptyTrajectory, xml |-> FALSE]
    ELSE IF track_name \notin DOMAIN reg.track
        THEN [reg |-> reg, ws |-> ws, exc |-> "std", traj |-> EmptyTrajectory, xml |-> FALSE]
    ELSE compute_optimal_laptime(reg, ws, t, vehicle_name, track_name, n_points, o, lib, ub)

-----------------------------------------------------------------------------
(* compute_optimal_laptime from the options to the trajectory: the
   configuration, the seeds of the mesh, the start of an open simulation *)

\* A value of the run, by where it comes from: the steady state computed at
\* speed val, the initial condition val of the options, the 0.0 the kart's
\* second control is reset to, the model's own value of a control that has
\* no mesh, or entry val of the solver's solution
From(src, val) == [src |-> src, val |-> val]

\* The names of the controls of each vehicle type, in the order of the
\* array u
u_names(t) == IF t = "f1" THEN << "delta", "throttle", "brake-bias" >>
              ELSE << "delta", "throttle" >>
NCONTROL(t) == Len(u_names(t))

get_default_is_direct(t) == t = "f1"
get_default_control_types(t) ==
    IF t = "f1" THEN << "full-mesh", "full-mesh", "dont optimize" >>
    ELSE << "full-mesh", "full-mesh" >>

\* The options document: which elements it has and their values.  A speed of
\* 0 stands for an absent element; control_variables lists the children of
\* options/control_variables; initial_condition is 0 when the element is
\* absent and else numbers the vectors q, qa, u it names, which tables_hold
\* says are in table_vector or not.
ControlChoices ==
    { << >>,
      << [name |-> "brake-bias", type |-> "full-mesh"] >>,
      << [name |-> "throttle", type |-> "hypermesh"] >>,
      << [name |-> "throttle", type |-> "dont optimize"] >>,
      << [name |-> "throttle", type |-> "constant"] >> }
Documents ==
    [empty : {FALSE}, warm_start : BOOLEAN, save_warm_start : BOOLEAN,
     steady_state_speed : {0, 60}, initial_speed : {0, 70},
     closed_simulation : {"absent", "true", "false"},
     initial_condition : 0..MaxStart, tables_hold : BOOLEAN,
     control_variables : ControlChoices]
EmptyDocument ==
    [empty |-> TRUE, warm_start |-> FALSE, save_warm_start |-> FALSE,
     steady_state_speed |-> 0, initial_speed |-> 0, closed_simulation |-> "absent",
     initial_condition |-> 0, tables_hold |-> FALSE, control_variables |-> << >>]

\* The members of Optimal_laptime_configuration with their initialisers
DefaultConfiguration(t) ==
    [warm_start |-> FALSE, save_warm_start |-> FALSE, steady_state_speed |-> 50,
     is_direct |-> get_default_is_direct(t), is_closed |-> TRUE,
     set_initial_condition |-> FALSE, control_type |-> get_default_control_types(t),
     q_start |-> From("unset", 0), qa_start |-> From("unset", 0),
     u_start |-> [j \in 1..NCONTROL(t) |-> From("unset", 0)]]

\* The loop over the children of options/control_variables
RECURSIVE read_control_variables(_, _, _)
read_control_variables(t, children, control_type) ==
    IF children = << >> THEN [exc |-> "none", control_type |-> control_type]
    ELSE
        LET variable == Head(children)
            found == {j \in 1..NCONTROL(t) : u_names(t)[j] = variable.name}
        IN  IF found = {} THEN [exc |-> "fastest_lap", control_type |-> control_type]
            ELSE IF variable.type = "constant"
                THEN [exc |-> "fastest_lap", control_type |-> control_type]
            ELSE IF variable.type \notin {"dont optimize", "hypermesh", "full-mesh"}
                THEN [exc |-> "fastest_lap", control_type |-> control_type]
            ELSE read_control_variables(t, Tail(children),
                    [control_type EXCEPT ![CHOOSE j \in found : TRUE] = variable.type])

\* Optimal_laptime_configuration(options).  Reading an element the document
\* does not have, and a vector table_vector does not have, throw.
Optimal_laptime_configuration(t, doc) ==
    LET d == DefaultConfiguration(t)
        is_closed == IF doc.closed_simulation = "absent" THEN d.is_closed
                     ELSE doc.closed_simulation = "true"
        c1 == [d EXCEPT !.warm_start = doc.warm_start,
                        !.save_warm_start = doc.save_warm_start,
                        !.steady_state_speed = IF doc.steady_state_speed # 0
                                               THEN doc.initial_speed ELSE @,
                        !.is_closed = is_closed]
        c2 == IF is_closed THEN c1
              ELSE [c1 EXCEPT !.set_initial_condition = TRUE,
                              !.q_start = From("q_start", doc.initial_condition),
                              !.qa_start = From("qa_start", doc.initial_condition),
                              !.u_start = [j \in 1..NCONTROL(t) |->
                                            From("u_start", doc.initial_condition)]]
        cv == read_control_variables(t, doc.control_variables, c2.control_type)
    IN  IF doc.empty THEN [exc |-> "none", conf |-> d]
        ELSE IF doc.steady_state_speed # 0 /\ doc.initial_speed = 0
            THEN [exc |-> "lion", conf |-> d]
        ELSE IF ~is_closed /\ doc.initial_condition = 0
            THEN [exc |-> "fastest_lap", conf |-> d]
        ELSE IF ~is_closed /\ ~doc.tables_hold THEN [exc |-> "std", conf |-> d]
        ELSE IF cv.exc # "none" THEN [exc |-> cv.exc, conf |-> d]
        ELSE [exc |-> "none", conf |-> [c2 EXCEPT !.control_type = cv.control_type]]

\* ss_.solve(v, 0.0, 0.0), and the reset of the kart's second control
Steady_state(t, v) ==
    [q |-> From("steady_state", v), qa |-> From("steady_state", v),
     u |-> [j \in 1..NCONTROL(t) |->
              IF t = "kart" /\ j = 2 THEN From("zero", 0) ELSE From("steady_state", v)]]

\* The first node of each control variable construct_control_variables
\* makes: a control that is not optimized holds no mesh values
construct_control_variables(t, conf, u_steady_state) ==
    [j \in 1..NCONTROL(t) |->
        [optimal_control_type |-> conf.control_type[j],
         front |-> IF conf.control_type[j] = "dont optimize" THEN From("model", 0)
                   ELSE u_steady_state[j]]]

\* A solved trajectory as the run keeps it: the kind of simulation and its
\* node 0
NoTrajectory ==
    [valid |-> FALSE, is_closed |-> FALSE, is_direct |-> FALSE,
     q |-> From("unset", 0), qa |-> From("unset", 0), u |-> << >>]

\* Optimal_laptime(s, is_closed, is_direct, car, q0, qa0, control_variables,
\* opts): the constructor checks the mesh and solves.  On an open track node
\* 0 is not a variable of the problem and keeps its seed; on a closed one the
\* solver sets it.  A control that is not optimized is no variable either.
Optimal_laptime_from_seeds(mesh_ok, is_closed, is_direct, q0, qa0, control_variables, lib, sol) ==
    IF ~mesh_ok THEN [exc |-> "std", traj |-> NoTrajectory]
    ELSE IF lib # "none" THEN [exc |-> lib, traj |-> NoTrajectory]
    ELSE [exc |-> "none",
          traj |-> [valid |-> TRUE, is_closed |-> is_closed, is_direct |-> is_direct,
                    q |-> IF is_closed THEN From("solver", sol) ELSE q0,
                    qa |-> IF is_closed THEN From("solver", sol) ELSE qa0,
                    u |-> [j \in 1..Len(control_variables) |->
                            IF is_closed
                               /\ control_variables[j].optimal_control_type # "dont optimize"
                            THEN [control_variables[j] EXCEPT !.front = From("solver", sol)]
                            ELSE control_variables[j]]]]

\* (4), (5) of compute_optimal_laptime: the steady state, the seeds of a cold
\* start with the initial condition of the options, or the cached trajectory
\* of a warm start, and the constructor
seeded_optimal_laptime(t, conf, ws, n_points, lib, sol) ==
    LET ss == Steady_state(t, conf.steady_state_speed)
        cv == construct_control_variables(t, conf, ss.u)
        control_variables ==
            [j \in 1..NCONTROL(t) |->
                IF conf.set_initial_condition /\ cv[j].optimal_control_type = "full-mesh"
                THEN [cv[j] EXCEPT !.front = conf.u_start[j]] ELSE cv[j]]
    IN  IF ~conf.warm_start
        THEN Optimal_laptime_from_seeds(n_points > 1, conf.is_closed, conf.is_direct,
                IF conf.set_initial_condition THEN conf.q_start ELSE ss.q,
                IF conf.set_initial_condition THEN conf.qa_start ELSE ss.qa,
                control_variables, lib, sol)
        ELSE Optimal_laptime_from_seeds(ws.valid, ws.is_closed, ws.is_direct,
                ws.q, ws.qa, ws.u, lib, sol)

\* compute_optimal_laptime for options that ask for no output variable
run_optimal_laptime(t, doc, cache, n_points, lib, sol) ==
    LET c == Optimal_laptime_configuration(t, doc)
        r == seeded_optimal_laptime(t, c.conf, cache[t], n_points, lib, sol)
    IN  IF c.exc # "none"
            THEN [t |-> t, doc |-> doc, conf |-> c.conf, exc |-> c.exc,
                  traj |-> NoTrajectory, cache |-> cache]
        ELSE IF r.exc # "none"
            THEN [t |-> t, doc |-> doc, conf |-> c.conf, exc |-> r.exc,
                  traj |-> NoTrajectory, cache |-> cache]
        ELSE [t |-> t, doc |-> doc, conf |-> c.conf, exc |-> "none", traj |-> r.traj,
              cache |-> IF c.conf.save_warm_start THEN [cache EXCEPT ![t] = r.traj]
                        ELSE cache]

NoRun ==
    [t |-> "f1", doc |-> EmptyDocument, conf |-> DefaultConfiguration("f1"), exc |-> "none",
     traj |-> NoTrajectory, cache |-> [t \in VehicleTypes |-> NoTrajectory]]

\* The documents callers pass: an element is given a value only where the
\* configuration reads it
ReadDocuments ==
    {doc \in Documents :
        /\ (doc.steady_state_speed = 0 => doc.initial_speed = 0)
        /\ (doc.closed_simulation # "false" => doc.initial_condition = 0)
        /\ (doc.initial_condition = 0 => ~doc.tables_hold)}

\* The constructor alone: Optimal_laptime_configuration<vehicle_t>(options)
Configure(t, doc) ==
    LET c == Optimal_laptime_configuration(t, doc)
    IN  /\ sim' = [sim EXCEPT !.t = t, !.doc = doc, !.conf = c.conf, !.exc = c.exc,
                              !.traj = NoTrajectory]
        /\ UNCHANGED << table_kart_6dof, table_f1_3dof, table_track, table_scalar,
                        table_vector, warm_start, ret, law, saved, opt, nlp >>

\* A call optimal_laptime(vehicle of type t, track, n_points, s, options)
Run_optimal_laptime(t, doc, n_points) ==
    LET c == Optimal_laptime_configuration(t, doc)
        solves == c.exc = "none"
                  /\ IF c.conf.warm_start THEN sim.cache[t].valid ELSE n_points > 1
    IN  \E lib \in IF solves THEN {"none", "std"} ELSE {"none"} :
            /\ sim' = run_optimal_laptime(t, doc, sim.cache, n_points, lib, MaxSol)
            /\ UNCHANGED << table_kart_6dof, table_f1_3dof, table_track, table_scalar,
                            table_vector, warm_start, ret, law, saved, opt, nlp >>

\* The documents of the runs: no speed, open or closed by default, controls
\* of the types that have a mesh or are not optimized
RunDocuments ==
    {doc \in ReadDocuments :
        /\ doc.steady_state_speed = 0
        /\ doc.closed_simulation # "true"
        /\ \A k \in 1..Len(doc.control_variables) :
              doc.control_variables[k].type \in {"full-mesh", "dont optimize"}}

-----------------------------------------------------------------------------
(* The Optimal_laptime object before its constructor runs *)

\* The arguments of the constructor that ran, and what its checks read
NoArguments ==
    [ctor |-> "", is_closed |-> FALSE, s |-> << >>, s_start |-> 0, s_finish |-> 0,
     reads |-> {}]

NoOptimalLaptime ==
    [pc |-> "new", m |-> "", is_closed |-> FALSE, is_direct |-> FALSE, n_elements |-> 0,
     n_points |-> 0, s |-> << >>, q |-> << >>, qa |-> << >>, u |-> << >>, laptime |-> 0,
     doc |-> << >>, args |-> NoArguments]
NoProblem == [x_bounds |-> << >>, c_bounds |-> << >>, x |-> << >>, loads |-> << >>, fg |-> << >>]

-----------------------------------------------------------------------------
(* The callers of the C API: one action per public operation *)

\* A process that has been ended makes no more calls
Alive == ret.thrown # "abort"

SetTables(reg) ==
    /\ table_kart_6dof' = reg.kart
    /\ table_f1_3dof' = reg.f1
    /\ table_track' = reg.track
    /\ table_scalar' = reg.scalar
    /\ table_vector' = reg.vector

\* A copy_variable(a, b); move_variable(b, c); delete_variable(c) sequence
\* that started with a present and b and c fresh: stage counts its calls
Idle == [stage |-> 0, a |-> "", b |-> "", c |-> "", snap |-> EmptyReg]
LawAfterCopy(old_name, new_name) ==
    IF TablesOf(Reg, old_name) # {} /\ TablesOf(Reg, new_name) = {}
    THEN [stage |-> 1, a |-> old_name, b |-> new_name, c |-> "", snap |-> Reg]
    ELSE Idle
LawAfterMove(old_name, new_name) ==
    IF law.stage = 1 /\ old_name = law.b /\ TablesOf(law.snap, new_name) = {}
    THEN [law EXCEPT !.stage = 2, !.c = new_name]
    ELSE Idle
LawAfterDelete(variable_name) ==
    IF law.stage = 2 /\ variable_name = law.c THEN [law EXCEPT !.stage = 3] ELSE Idle

\* A call of an operation that works on the tables only.  obs is what the
\* caller knew when it called.
Call(op, obs, r, l) ==
    /\ Alive
    /\ Size(r.reg) <= MaxEntries
    /\ SetTables(r.reg)
    /\ ret' = Returned(op, obs, r.exc, 0)
    /\ law' = l
    /\ UNCHANGED << warm_start, saved, opt, nlp, sim >>

\* What the caller of a creating operation knows: whether the new name is
\* already in use
Clash(name) == [clash |-> TablesOf(Reg, name) # {}]
\* What the caller of an operation on a vehicle knows: whether the name is
\* a kart, an f1 or neither
Hit(name) == [hit |-> IF name \in DOMAIN table_kart_6dof THEN "kart"
                      ELSE IF name \in DOMAIN table_f1_3dof THEN "f1" ELSE "none"]

Call_create_vehicle_from_xml(name, file) ==
    Call("create_vehicle_from_xml", Clash(name), create_vehicle_from_xml(Reg, name, file), Idle)

Call_create_vehicle_empty(name, type) ==
    Call("create_vehicle_empty", Clash(name), create_vehicle_empty(Reg, name, type), Idle)

Call_create_track_from_xml(name, file) ==
    Call("create_track_from_xml", Clash(name), create_track_from_xml(Reg, name, file), Idle)

Call_create_vector(name, n, data) ==
    Call("create_vector", Clash(name), create_vector(Reg, name, n, data), Idle)

Call_create_scalar(name, value) ==
    Call("create_scalar", Clash(name), create_scalar(Reg, name, value), Idle)

Call_copy_variable(old_name, new_name) ==
    Call("copy_variable", Clash(new_name), copy_variable(Reg, old_name, new_name),
         LawAfterCopy(old_name, new_name))

Call_move_variable(old_name, new_name) ==
    Call("move_variable", Clash(new_name), move_variable(Reg, old_name, new_name),
         LawAfterMove(old_name, new_name))

Call_delete_variable(name) ==
    Call("delete_variable", << >>, delete_variable(Reg, name), LawAfterDelete(name))

Call_delete_variables ==
    Call("delete_variables", << >>, delete_variables(Reg), Idle)

Call_delete_variables_by_prefix(prefix) ==
    Call("delete_variables_by_prefix", << >>, delete_variables_by_prefix(Reg, prefix), Idle)

Call_print_variable_to_string(n_char, name) ==
    LET p == print_variable_to_string(Reg, n_char, name) IN
    /\ Alive
    /\ ret' = Returned("print_variable_to_string",
                       [n_char |-> n_char,
                        size |-> Len(print_variable_to_std_string(Reg, name).text)],
                       p.exc, p.written)
    /\ law' = Idle
    /\ UNCHANGED << table_kart_6dof, table_f1_3dof, table_track, table_scalar, table_vector,
                    warm_start, saved, opt, nlp, sim >>

Call_vehicle_get_property(name, property) ==
    Call("vehicle_get_property", [hit |-> Hit(name).hit, property |-> property],
         vehicle_get_property(Reg, name, property), Idle)

Call_vehicle_save_as_xml(name, lib) ==
    Call("vehicle_save_as_xml", Hit(name), vehicle_save_as_xml(Reg, name, lib), Idle)

Call_vehicle_set_parameter(name, lib, value) ==
    Call("vehicle_set_parameter", Hit(name), vehicle_set_parameter(Reg, name, lib, value), Idle)

Call_vehicle_declare_new_constant_parameter(name, lib) ==
    Call("vehicle_declare_new_constant_parameter", Hit(name),
         vehicle_declare_new_constant_parameter(Reg, name, lib), Idle)

Call_vehicle_declare_new_variable_parameter(name, lib) ==
    Call("vehicle_declare_new_variable_parameter", Hit(name),
         vehicle_declare_new_variable_parameter(Reg, name, lib), Idle)

Call_vehicle_equations(name) ==
    /\ Alive
    /\ ret' = ReturnedBare("vehicle_equations")
    /\ law' = Idle
    /\ UNCHANGED << table_kart_6dof, table_f1_3dof, table_track, table_scalar, table_vector,
                    warm_start, saved, opt, nlp, sim >>

Call_propagate_vehicle(name, track_name, use_circuit, lib) ==
    Call("propagate_vehicle",
         [hit |-> Hit(name).hit, name |-> name, track_name |-> track_name,
          use_circuit |-> use_circuit],
         propagate_vehicle(Reg, name, track_name, use_circuit, lib), Idle)

Call_gg_diagram(name, lib) ==
    Call("gg_diagram", Hit(name), gg_diagram(Reg, name, lib), Idle)

Call_vehicle_change_track(name, track_name) ==
    Call("vehicle_change_track",
         [hit |-> Hit(name).hit, name |-> name, track_name |-> track_name],
         vehicle_change_track(Reg, name, track_name), Idle)

\* The options, the outcome of the solver and the memory past the end of the
\* trajectory are drawn where the code reads them: the options once vehicle
\* and track are found, the solver once the mesh has two nodes, the memory
\* when the caller's n_points exceeds the size of the trajectory.
\* saved follows the calls as a caller sees them: a call on a vehicle of type
\* t that asked to save and returned without error is the most recent one.
Call_optimal_laptime(name, track_name, n_points) ==
    LET t == Hit(name).hit
        found == t # "none" /\ track_name \in DOMAIN table_track
    IN  \E o \in IF found THEN OLOptions ELSE OutputOptions :
        LET n == IF found /\ o.warm_start THEN warm_start[t].n ELSE n_points
            solves == found /\ o.well_formed /\ n > 1
        IN  \E lib \in IF solves THEN {"none", "std"} ELSE {"none"},
               ub \in IF solves /\ n_points > n THEN PastTheEnd ELSE {NoRead} :
            LET r == optimal_laptime(Reg, warm_start, name, track_name, n_points, o, lib, ub)
            IN  /\ Alive
                /\ Size(r.reg) <= MaxEntries + Len(o.variables)
                /\ SetTables(r.reg)
                /\ warm_start' = r.ws
                /\ ret' = Returned("optimal_laptime",
                                   [hit |-> t, name |-> name, track_name |-> track_name,
                                    warm_start |-> o.warm_start,
                                    save_warm_start |-> o.save_warm_start,
                                    write_xml |-> o.write_xml, prefix |-> o.prefix,
                                    variables |-> o.variables, n_points |-> n_points,
                                    solver |-> lib, xml |-> r.xml], r.exc, 0)
                /\ law' = Idle
                /\ saved' = IF t # "none" /\ o.save_warm_start /\ CATCH(r.exc).thrown = "none"
                            THEN [saved EXCEPT ![t] = r.traj]
                            ELSE saved
                /\ UNCHANGED << opt, nlp, sim >>

-----------------------------------------------------------------------------
(* The registry and its callers *)

Init ==
    /\ table_kart_6dof = EmptyTable
    /\ table_f1_3dof = EmptyTable
    /\ table_track = EmptyTable
    /\ table_scalar = EmptyTable
    /\ table_vector = EmptyTable
    /\ warm_start = [t \in VehicleTypes |-> EmptyTrajectory]
    /\ ret = ReturnedBare("none")
    /\ law = Idle
    /\ saved = [t \in VehicleTypes |-> EmptyTrajectory]
    /\ opt = NoOptimalLaptime
    /\ nlp = NoProblem
    /\ sim = NoRun

Prefixes == {"", "a", "l"}
VehicleTypeNames == {"kart-6dof", "f1-3dof", "motorbike"}
\* The vectors callers pass to create_vector
Vectors == {[i \in 1..MaxLen |-> 1]}
\* The values callers set a parameter to
ParamVals == {1}
\* Buffer sizes callers pass to print_variable_to_string
NChars == -1..MaxChar

Next ==
    \/ \E name \in Names, file \in DatabaseFiles : Call_create_vehicle_from_xml(name, file)
    \/ \E name \in Names, type \in VehicleTypeNames : Call_create_vehicle_empty(name, type)
    \/ \E name \in Names, file \in TrackFiles : Call_create_track_from_xml(name, file)
    \/ \E name \in Names, n \in 0..MaxLen, data \in Vectors : Call_create_vector(name, n, data)
    \/ \E name \in Names, value \in Vals : Call_create_scalar(name, value)
    \/ \E old \in Names, new \in Names : Call_copy_variable(old, new)
    \/ \E old \in Names, new \in Names : Call_move_variable(old, new)
    \/ \E name \in Names : Call_delete_variable(name)
    \/ Call_delete_variables
    \/ \E prefix \in Prefixes : Call_delete_variables_by_prefix(prefix)
    \/ \E n_char \in NChars, name \in Names : Call_print_variable_to_string(n_char, name)
    \/ \E name \in Names, property \in Properties : Call_vehicle_get_property(name, property)
    \/ \E name \in Names, lib \in LibOutcomes : Call_vehicle_save_as_xml(name, lib)
    \/ \E name \in Names, lib \in LibOutcomes, value \in ParamVals :
            Call_vehicle_set_parameter(name, lib, value)
    \/ \E name \in Names, lib \in LibOutcomes :
            Call_vehicle_declare_new_constant_parameter(name, lib)
    \/ \E name \in Names, lib \in LibOutcomes :
            Call_vehicle_declare_new_variable_parameter(name, lib)
    \/ \E name \in Names : Call_vehicle_equations(name)
    \/ \E name \in Names, track_name \in Names, use_circuit \in BOOLEAN, lib \in LibOutcomes :
            Call_propagate_vehicle(name, track_name, use_circuit, lib)
    \/ \E name \in Names, lib \in LibOutcomes : Call_gg_diagram(name, lib)
    \/ \E name \in Names, track_name \in Names : Call_vehicle_change_track(name, track_name)

Spec == Init /\ [][Next]_vars

\* The callers of optimal_laptime: they create vehicles and tracks, run, and
\* delete
RunVehicles == {"a", "x"}
RunTracks == {"x", "laptime"}
NextWS ==
    \/ \E name \in RunVehicles, file \in DatabaseFiles :
            Call_create_vehicle_from_xml(name, file)
    \/ \E name \in RunTracks, file \in TrackFiles : Call_create_track_from_xml(name, file)
    \/ \E name \in Names : Call_delete_variable(name)
    \/ \E name \in RunVehicles, track_name \in RunTracks, n_points \in 0..MaxPoints :
            Call_optimal_laptime(name, track_name, n_points)
    \/ \E name \in RunVehicles, property \in Properties :
            Call_vehicle_get_property(name, property)

SpecWS == Init /\ [][NextWS]_vars

\* The callers that put a vehicle on a track: a vehicle, and tracks made
\* from two files that hold different roads
CircuitFiles == {"track.xml", "circuit.xml"}
NextTrack ==
    \/ \E file \in {"kart.xml", "f1.xml"} : Call_create_vehicle_from_xml("a", file)
    \/ \E name \in RunTracks, file \in CircuitFiles : Call_create_track_from_xml(name, file)
    \/ \E name \in Names : Call_delete_variable(name)
    \/ \E track_name \in RunTracks : Call_vehicle_change_track("a", track_name)
    \/ \E track_name \in RunTracks, use_circuit \in BOOLEAN, lib \in LibOutcomes :
            Call_propagate_vehicle("a", track_name, use_circuit, lib)
    \/ \E track_name \in RunTracks, n_points \in {0, MaxPoints} :
            Call_optimal_laptime("a", track_name, n_points)

SpecTrack == Init /\ [][NextTrack]_vars

\* The calls of optimal_laptime with options that seed and start the run
NextRun ==
    \E t \in VehicleTypes, doc \in RunDocuments \cup {EmptyDocument} :
        Run_optimal_laptime(t, doc, MaxPoints)

SpecRun == Init /\ [][NextRun]_vars

\* The options documents the configuration is constructed from
NextConf ==
    \E t \in VehicleTypes, doc \in ReadDocuments \cup {EmptyDocument} : Configure(t, doc)

SpecConf == Init /\ [][NextConf]_vars

-----------------------------------------------------------------------------
(* The optimal-laptime problem: the vehicle model it is built for *)

\* Dynamic_model_t as Optimal_laptime reads it: the sizes of the state, the
\* algebraic state and the controls, the positions of the time and of the
\* lateral offset in the state, the position of the longitudinal speed, and
\* the tire inequalities optimal_laptime_extra_constraints returns, in order.
\* Indices count from 0 as in the code; IN_ is the code's IN.
TireInequalities ==
    << "kappa_rear_left", "kappa_rear_right", "lambda_front_left", "lambda_front_right",
       "lambda_rear_left", "lambda_rear_right" >>
limebeer2014f1 ==
    [NSTATE |-> 6, IU |-> 0, ITIME |-> 3, IN_ |-> 4, NALGEBRAIC |-> 4, NCONTROL |-> 3,
     extra |-> TireInequalities]
lot2016kart ==
    [NSTATE |-> 7, IU |-> 0, ITIME |-> 4, IN_ |-> 5, NALGEBRAIC |-> 0, NCONTROL |-> 2,
     extra |-> TireInequalities]
Models == {limebeer2014f1, lot2016kart}
N_OL_EXTRA_CONSTRAINTS(m) == Len(m.extra)

\* The curvature of the road at arclength s
Kappa(s) == (s \div 2) % 3

\* The ITIME component of dqdt the car returns for state q at arclength s:
\* the time per arclength depends on the speed, and through the curvature of
\* the road on the lateral offset and on s
dtimeds_of(m, q, s) == 1 + q[m.IU] + q[m.IN_] * Kappa(s)

\* i-th element of a C++ array or vector held as a sequence
At(v, i) == v[i + 1]
Back(v) == v[Len(v)]

\* The sequence f(lo), ..., f(hi - 1) of a loop for (j = lo; j < hi; ++j)
Loop(lo, hi, f(_)) == [k \in 1..(IF hi > lo THEN hi - lo ELSE 0) |-> f(lo + k - 1)]

RECURSIVE Flatten(_)
Flatten(ss) == IF ss = << >> THEN << >> ELSE Head(ss) \o Flatten(Tail(ss))

-----------------------------------------------------------------------------
(* The bounds compute_direct and compute_derivative fill *)

\* What an entry of x_lb, x_ub is filled from: the model bound j of the
\* state ("q"), of the algebraic state ("qa"), of the controls ("u"), of the
\* control derivatives ("dudt"), or the track limits at the arclength of
\* node i ("track_limits")
XBound(kind, i, j) == [kind |-> kind, node |-> i, j |-> j]
\* What an entry of c_lb, c_ub is filled from: (0, 0) or the bounds of the
\* model's extra constraint j
Equality == [kind |-> "equality", j |-> 0]
ExtraBound(j) == [kind |-> "extra", j |-> j]

state_bounds_no_track_limits(m, i) ==
    Loop(0, m.ITIME, LAMBDA j : XBound("q", i, j))
    \o << XBound("q", i, m.IN_) >>
    \o Loop(m.IN_ + 1, m.NSTATE, LAMBDA j : XBound("q", i, j))

\* The entries of x_lb, x_ub for the state of node i: before the time, the
\* lateral offset, after the lateral offset
state_bounds(m, i) ==
    Loop(0, m.ITIME, LAMBDA j : XBound("q", i, j))
    \o << XBound("track_limits", i, m.IN_) >>
    \o Loop(m.IN_ + 1, m.NSTATE, LAMBDA j : XBound("q", i, j))

\* The entries of c_lb, c_ub the three state loops fill
state_constraint_bounds(m) ==
    Loop(0, m.ITIME, LAMBDA j : Equality)
    \o << Equality >>
    \o Loop(m.IN_ + 1, m.NSTATE, LAMBDA j : Equality)

direct_x_bounds(m, i) ==
    state_bounds(m, i)
    \o Loop(0, m.NALGEBRAIC, LAMBDA j : XBound("qa", i, j))
    \o Loop(0, m.NCONTROL, LAMBDA j : XBound("u", i, j))

direct_c_bounds(m) ==
    state_constraint_bounds(m)
    \o Loop(0, m.NALGEBRAIC, LAMBDA j : Equality)
    \o Loop(0, N_OL_EXTRA_CONSTRAINTS(m), LAMBDA j : ExtraBound(j))

derivative_x_bounds(m, i) ==
    state_bounds(m, i)
    \o Loop(0, m.NALGEBRAIC, LAMBDA j : XBound("qa", i, j))
    \o Loop(0, m.NCONTROL, LAMBDA j : XBound("u", i, j))
    \o Loop(0, m.NCONTROL, LAMBDA j : XBound("dudt", i, j))

derivative_c_bounds_controls_first(m) ==
    state_constraint_bounds(m)
    \o Loop(0, m.NALGEBRAIC, LAMBDA j : Equality)
    \o Loop(0, m.NCONTROL, LAMBDA j : Equality)
    \o Loop(0, N_OL_EXTRA_CONSTRAINTS(m), LAMBDA j : ExtraBound(j))

derivative_c_bounds(m) ==
    state_constraint_bounds(m)
    \o Loop(0, m.NALGEBRAIC, LAMBDA j : Equality)
    \o Loop(0, N_OL_EXTRA_CONSTRAINTS(m), LAMBDA j : ExtraBound(j))
    \o Loop(0, m.NCONTROL, LAMBDA j : Equality)

\* for (i = offset; i < n_points; ++i)
Offset(is_closed) == IF is_closed THEN 0 ELSE 1

fill_x_bounds(m, is_closed, is_direct, n_points) ==
    Flatten(Loop(Offset(is_closed), n_points,
                 LAMBDA i : IF is_direct THEN direct_x_bounds(m, i)
                            ELSE derivative_x_bounds(m, i)))

fill_c_bounds(m, is_closed, is_direct, n_points) ==
    Flatten(Loop(Offset(is_closed), n_points,
                 LAMBDA i : IF is_direct THEN direct_c_bounds(m) ELSE derivative_c_bounds(m)))

-----------------------------------------------------------------------------
(* The functor FG_direct / FG_derivative *)

\* The variable x[k++] is loaded into: _q[i][j], _qa[i][j], _u[i][j] or
\* _dudt[i][j]
load_order(m, is_direct, i) ==
    Loop(0, m.ITIME, LAMBDA j : XBound("q", i, j))
    \o Loop(m.ITIME + 1, m.NSTATE, LAMBDA j : XBound("q", i, j))
    \o Loop(0, m.NALGEBRAIC, LAMBDA j : XBound("qa", i, j))
    \o Loop(0, m.NCONTROL, LAMBDA j : XBound("u", i, j))
    \o (IF is_direct THEN << >> ELSE Loop(0, m.NCONTROL, LAMBDA j : XBound("dudt", i, j)))

loads(m, is_closed, is_direct, n_points) ==
    Flatten(Loop(Offset(is_closed), n_points, LAMBDA i : load_order(m, is_direct, i)))

\* The value the functor holds for a variable after loading x: the entry of x
\* loaded into it, or what it held before (unloaded)
Loaded(ld, x, kind, i, j, unloaded) ==
    IF \E k \in 1..Len(ld) : ld[k] = XBound(kind, i, j)
    THEN x[CHOOSE k \in 1..Len(ld) : ld[k] = XBound(kind, i, j)]
    ELSE unloaded

\* _q after the loads.  On an open track node 0 is the seed _q0; on a closed
\* one the time of node 0 is never written and keeps the 0 it was
\* constructed with.
functor_states(m, is_closed, is_direct, n_points, x, q0) ==
    LET ld == loads(m, is_closed, is_direct, n_points) IN
    [i \in 0..(n_points - 1) |->
        [j \in 0..(m.NSTATE - 1) |->
            Loaded(ld, x, "q", i, j, IF i = 0 /\ ~is_closed THEN q0[j] ELSE 0)]]

\* _qa and _u after the loads
functor_algebraic_states(m, is_closed, is_direct, n_points, x, qa0) ==
    LET ld == loads(m, is_closed, is_direct, n_points) IN
    [i \in 0..(n_points - 1) |->
        [j \in 0..(m.NALGEBRAIC - 1) |->
            Loaded(ld, x, "qa", i, j, IF i = 0 /\ ~is_closed THEN qa0[j] ELSE 0)]]

functor_controls(m, is_closed, is_direct, n_points, x, u0) ==
    LET ld == loads(m, is_closed, is_direct, n_points) IN
    [i \in 0..(n_points - 1) |->
        [j \in 0..(m.NCONTROL - 1) |->
            Loaded(ld, x, "u", i, j, IF i = 0 /\ ~is_closed THEN u0[j] ELSE 0)]]

\* What fg[k++] is written with: the residual of an equation (of the state
\* j, of the algebraic state j, of the control j) or the value of a tire
\* inequality
Residual(kind, i, j) == [kind |-> "equality", of |-> kind, node |-> i, j |-> j, name |-> ""]
\* A tire value is the one of the node the car was last evaluated at
Tire(i, name) == [kind |-> "tire", of |-> "tire", node |-> i, j |-> 0, name |-> name]

\* The constraints FG_direct writes for the element that ends at node i,
\* with the car last evaluated at node car
direct_constraints(m, i, car) ==
    Loop(0, m.ITIME, LAMBDA j : Residual("q", i, j))
    \o Loop(m.ITIME + 1, m.NSTATE, LAMBDA j : Residual("q", i, j))
    \o Loop(0, m.NALGEBRAIC, LAMBDA j : Residual("qa", i, j))
    \o Loop(0, N_OL_EXTRA_CONSTRAINTS(m), LAMBDA j : Tire(car, At(m.extra, j)))

\* The constraints FG_derivative writes for the element that ends at node i:
\* its six tire values are written one by one
derivative_constraints(m, i, car) ==
    Loop(0, m.ITIME, LAMBDA j : Residual("q", i, j))
    \o Loop(m.ITIME + 1, m.NSTATE, LAMBDA j : Residual("q", i, j))
    \o Loop(0, m.NALGEBRAIC, LAMBDA j : Residual("qa", i, j))
    \o << Tire(car, "kappa_rear_left"), Tire(car, "kappa_rear_right"),
          Tire(car, "lambda_front_left"), Tire(car, "lambda_front_right"),
          Tire(car, "lambda_rear_left"), Tire(car, "lambda_rear_right") >>
    \o Loop(0, m.NCONTROL, LAMBDA j : Residual("u", i, j))

evaluations_without_periodic(is_closed, n_points) == [k \in 1..n_points |-> k - 1]

\* The nodes _car(_q[i], _qa[i], _u[i], _s[i]) is called for, in order: node
\* 0 before the loop, node i in the loop, and node 0 again in the periodic
\* element of a closed track
evaluations(is_closed, n_points) ==
    [k \in 1..n_points |-> k - 1] \o (IF is_closed THEN << 0 >> ELSE << >>)

\* fg[1], fg[2], ...: the elements 1 .. n_points-1, then the periodic
\* element of a closed track, which ends at node 0.  Each element reads the
\* tires after the most recent call of the car.
constraints(m, is_closed, is_direct, n_points) ==
    LET car == evaluations(is_closed, n_points) IN
    Flatten(Loop(1, n_points,
                 LAMBDA i : IF is_direct THEN direct_constraints(m, i, At(car, i))
                            ELSE derivative_constraints(m, i, At(car, i))))
    \o (IF ~is_closed THEN << >>
        ELSE IF is_direct THEN direct_constraints(m, 0, Back(car))
        ELSE derivative_constraints(m, 0, Back(car)))

-----------------------------------------------------------------------------
(* Recovering the time and the laptime *)

\* dtimeds of node i as the recovery loop evaluates it: node 0 at arclength
\* 0.0, every other node at s[i]
recovery_dtimeds(m, fq, s, i) ==
    IF i = 0 THEN dtimeds_of(m, fq[0], 0) ELSE dtimeds_of(m, fq[i], At(s, i))

\* q[i][ITIME] after the loop over i = 1 .. n_points-1
RECURSIVE recovered_time(_, _, _, _)
recovered_time(m, fq, s, i) ==
    IF i = 0 THEN fq[0][m.ITIME]
    ELSE recovered_time(m, fq, s, i - 1)
         + ((At(s, i) - At(s, i - 1)) * (recovery_dtimeds(m, fq, s, i)
                                         + recovery_dtimeds(m, fq, s, i - 1))) \div 2

\* laptime of compute_derivative
laptime_derivative(m, is_closed, L, fq, s, n_points) ==
    LET dtimeds_first == recovery_dtimeds(m, fq, s, 0)
        dtimeds_prev  == recovery_dtimeds(m, fq, s, n_points - 1)
        last == recovered_time(m, fq, s, n_points - 1)
    IN  IF is_closed
        THEN last + ((L - Back(s)) * (dtimeds_prev + dtimeds_first)) \div 2
        ELSE last

\* laptime of compute_direct
laptime_direct(m, is_closed, L, fq, s, n_points) ==
    LET dtimeds_first == recovery_dtimeds(m, fq, s, 0)
        dtimeds_prev  == recovery_dtimeds(m, fq, s, n_points - 1)
        last == recovered_time(m, fq, s, n_points - 1)
    IN  IF is_closed
        THEN last + ((L - Back(s)) * (dtimeds_prev * dtimeds_first)) \div 2
        ELSE last

-----------------------------------------------------------------------------
(* Constructing an Optimal_laptime: one action per constructor, then the
   steps of compute_direct / compute_derivative *)

ModelNames == {"limebeer2014f1", "lot2016kart"}
ModelOf(name) == IF name = "limebeer2014f1" THEN limebeer2014f1 ELSE lot2016kart
M == ModelOf(opt.m)

\* The road the car is on
Road == [track_length |-> 24]

\* The seed of every node: q0, the same value in every component
Seed(m) == [j \in 0..(m.NSTATE - 1) |-> 1]
\* qa0 and u0
AlgebraicSeed(m) == [j \in 0..(m.NALGEBRAIC - 1) |-> 2]
ControlSeed(m) == [j \in 0..(m.NCONTROL - 1) |-> 3]

Constructed(m, is_closed, is_direct, n_elements, n_points, s) ==
    [pc |-> "constructed", m |-> m, is_closed |-> is_closed, is_direct |-> is_direct,
     n_elements |-> n_elements, n_points |-> n_points, s |-> s,
     q |-> [i \in 0..(n_points - 1) |-> Seed(ModelOf(m))],
     qa |-> [i \in 0..(n_points - 1) |-> AlgebraicSeed(ModelOf(m))],
     u |-> [i \in 0..(n_points - 1) |-> ControlSeed(ModelOf(m))],
     laptime |-> 0, doc |-> << >>, args |-> NoArguments]

\* A constructor that threw std::runtime_error
Thrown == [NoOptimalLaptime EXCEPT !.pc = "failed"]

\* The arguments of the constructors from a vector of arclengths
MeshArguments(ctor, s_, is_closed) ==
    [NoArguments EXCEPT !.ctor = ctor, !.s = s_, !.is_closed = is_closed,
                        !.reads = {"s", "L"}]

\* Optimal_laptime(n, is_closed, is_direct, car, q0, qa0, u0, ...)
Optimal_laptime_n(m, n, is_closed, is_direct) ==
    LET L == Road.track_length
        n_points == IF is_closed THEN n ELSE n + 1
        ds == L \div n
        s0 == [i \in 1..n_points |-> (i - 1) * ds]
        s1 == IF ~is_closed THEN [s0 EXCEPT ![n_points] = L] ELSE s0
    IN  /\ opt.pc = "new"
        /\ opt' = Constructed(m, is_closed, is_direct, n, n_points, s1)
        /\ UNCHANGED << table_kart_6dof, table_f1_3dof, table_track, table_scalar,
                        table_vector, warm_start, ret, law, saved, nlp, sim >>

\* linspace(a, b, n): n values from a to b
linspace(a, b, n) == [i \in 1..n |-> a + ((i - 1) * (b - a)) \div (n - 1)]

\* What s.back() of the vector s that has no element yet can do: end the
\* process, or hand back whatever is in memory
BackOfEmpty == {[abort |-> TRUE, value |-> 0]} \cup [abort : {FALSE}, value : {0, 26}]

\* Optimal_laptime(s_start, s_finish, n, is_direct, car, q0, qa0, u0, ...):
\* the check against L reads s.back() before s is assigned
Optimal_laptime_range(m, s_start, s_finish, n, is_direct, back) ==
    LET L == Road.track_length
        args == [NoArguments EXCEPT !.ctor = "range", !.s_start = s_start,
                                    !.s_finish = s_finish]
        read == [args EXCEPT !.reads = {"s_start", "s.back()", "L"}]
    IN  /\ opt.pc = "new"
        /\ opt' = IF s_start < 0
                  THEN [Thrown EXCEPT !.args = [args EXCEPT !.reads = {"s_start"}]]
                  ELSE IF back.abort
                  THEN [NoOptimalLaptime EXCEPT !.pc = "aborted", !.args = read]
                  ELSE IF back.value > L THEN [Thrown EXCEPT !.args = read]
                  ELSE [Constructed(m, FALSE, is_direct, n, n + 1,
                                    linspace(s_start, s_finish, n + 1))
                            EXCEPT !.args = read]
        /\ UNCHANGED << table_kart_6dof, table_f1_3dof, table_track, table_scalar,
                        table_vector, warm_start, ret, law, saved, nlp, sim >>

\* The checks the two constructors from a vector of arclengths make
mesh_accepted(s, is_closed, L) ==
    IF Len(s) <= 1 THEN FALSE
    ELSE IF is_closed THEN ~(s[1] # 0) /\ ~(Back(s) >= L)
    ELSE ~(s[1] < 0) /\ ~(Back(s) > L)

\* Optimal_laptime(s, is_closed, is_direct, car, q0, qa0, u0, ...): one seed
Optimal_laptime_s(m, s_, is_closed, is_direct) ==
    LET L == Road.track_length
        n_points == Len(s_)
        s1 == IF is_closed THEN [s_ EXCEPT ![1] = 0, ![n_points] = L] ELSE s_
        args == MeshArguments("s", s_, is_closed)
    IN  /\ opt.pc = "new"
        /\ opt' = IF mesh_accepted(s_, is_closed, L)
                  THEN [Constructed(m, is_closed, is_direct,
                                    IF is_closed THEN n_points ELSE n_points - 1, n_points, s1)
                            EXCEPT !.args = args]
                  ELSE [Thrown EXCEPT !.args = args]
        /\ UNCHANGED << table_kart_6dof, table_f1_3dof, table_track, table_scalar,
                        table_vector, warm_start, ret, law, saved, nlp, sim >>

\* Optimal_laptime(s, is_closed, is_direct, car, q0, qa0, u0, ...): a seed per
\* node, n_seeds of them
Optimal_laptime_seeds(m, s_, is_closed, is_direct, n_seeds) ==
    LET L == Road.track_length
        n_points == Len(s_)
        s1 == IF is_closed THEN [s_ EXCEPT ![1] = 0] ELSE s_
        args == MeshArguments("seeds", s_, is_closed)
    IN  /\ opt.pc = "new"
        /\ opt' = IF mesh_accepted(s_, is_closed, L) /\ n_seeds = n_points
                  THEN [Constructed(m, is_closed, is_direct,
                                    IF is_closed THEN n_points ELSE n_points - 1, n_points, s1)
                            EXCEPT !.args = args]
                  ELSE [Thrown EXCEPT !.args = args]
        /\ UNCHANGED << table_kart_6dof, table_f1_3dof, table_track, table_scalar,
                        table_vector, warm_start, ret, law, saved, nlp, sim >>

\* compute: the bounds of the variables and of the constraints
FillBounds ==
    /\ opt.pc = "constructed"
    /\ nlp' = [NoProblem EXCEPT
                !.x_bounds = fill_x_bounds(M, opt.is_closed, opt.is_direct, opt.n_points),
                !.c_bounds = fill_c_bounds(M, opt.is_closed, opt.is_direct, opt.n_points)]
    /\ opt' = [opt EXCEPT !.pc = "built"]
    /\ UNCHANGED << table_kart_6dof, table_f1_3dof, table_track, table_scalar,
                    table_vector, warm_start, ret, law, saved, sim >>

\* The point a solver run ends at
SolValue(sol, k) == 1 + ((k * sol) % 3)

\* compute: the solver returns a point, or any status but success
Solve(sol, success) ==
    /\ opt.pc = "built"
    /\ IF success
       THEN /\ nlp' = [nlp EXCEPT !.x = [k \in 1..Len(nlp.x_bounds) |-> SolValue(sol, k)]]
            /\ opt' = [opt EXCEPT !.pc = "solved"]
       ELSE /\ nlp' = nlp
            /\ opt' = [opt EXCEPT !.pc = "failed"]
    /\ UNCHANGED << table_kart_6dof, table_f1_3dof, table_track, table_scalar,
                    table_vector, warm_start, ret, law, saved, sim >>

\* compute: fg(fg_final, x_final), and the export of the states it loaded
Export ==
    /\ opt.pc = "solved"
    /\ nlp' = [nlp EXCEPT
                !.loads = loads(M, opt.is_closed, opt.is_direct, opt.n_points),
                !.fg = constraints(M, opt.is_closed, opt.is_direct, opt.n_points)]
    /\ opt' = [opt EXCEPT
                !.pc = "exported",
                !.q = functor_states(M, opt.is_closed, opt.is_direct, opt.n_points, nlp.x,
                                     opt.q[0]),
                !.qa = functor_algebraic_states(M, opt.is_closed, opt.is_direct, opt.n_points,
                                                nlp.x, opt.qa[0]),
                !.u = functor_controls(M, opt.is_closed, opt.is_direct, opt.n_points, nlp.x,
                                       opt.u[0])]
    /\ UNCHANGED << table_kart_6dof, table_f1_3dof, table_track, table_scalar,
                    table_vector, warm_start, ret, law, saved, sim >>

\* compute: the time of every node and the laptime
RecoverTime ==
    /\ opt.pc = "exported"
    /\ opt' = [opt EXCEPT
                !.pc = "done",
                !.q = [i \in 0..(opt.n_points - 1) |->
                        [opt.q[i] EXCEPT ![M.ITIME] = recovered_time(M, opt.q, opt.s, i)]],
                !.laptime = IF opt.is_direct
                            THEN laptime_direct(M, opt.is_closed, Road.track_length, opt.q,
                                                opt.s, opt.n_points)
                            ELSE laptime_derivative(M, opt.is_closed, Road.track_length, opt.q,
                                                    opt.s, opt.n_points)]
    /\ UNCHANGED << table_kart_6dof, table_f1_3dof, table_track, table_scalar,
                    table_vector, warm_start, ret, law, saved, nlp, sim >>

\* A child of the root of the document xml() returns: what it holds (the
\* arclength, component j of the state or of the controls, a coordinate of
\* the road) and the numbers printed in its text, one per node, with 17
\* significant digits
Child(of, j, values) == [of |-> of, j |-> j, values |-> values]

\* Optimal_laptime::xml().  The coordinates of the road are not followed and
\* print as 0.
xml(m, o) ==
    << Child("arclength", 0, o.s) >>
    \o Loop(0, m.NSTATE, LAMBDA i : Child("q", i, [k \in 1..o.n_points |-> o.q[k - 1][i]]))
    \o Loop(0, m.NCONTROL, LAMBDA i : Child("u", i, [k \in 1..o.n_points |-> o.u[k - 1][i]]))
    \o << Child("x", 0, [k \in 1..o.n_points |-> 0]),
          Child("y", 0, [k \in 1..o.n_points |-> 0]),
          Child("psi", 0, [k \in 1..o.n_points |-> 0]) >>

\* xml() of a solved trajectory
WriteXml ==
    /\ opt.pc = "done"
    /\ opt' = [opt EXCEPT !.pc = "written", !.doc = xml(M, opt)]
    /\ UNCHANGED << table_kart_6dof, table_f1_3dof, table_track, table_scalar,
                    table_vector, warm_start, ret, law, saved, nlp, sim >>

\* The arclengths callers build their meshes from, and the meshes: strictly
\* increasing, of one to MaxNodes nodes
Arclengths == {0, 2, 4, 22, 24, 26}
Meshes ==
    {s \in UNION {[1..n -> Arclengths] : n \in 1..MaxNodes} :
        \A i \in 1..(Len(s) - 1) : s[i] < s[i + 1]}

\* The ends of the stretch of road callers ask for
Starts == {-2, 0, 2}
Finishes == {22, 24, 26}

NextOL ==
    \/ \E m \in ModelNames, n \in 1..(MaxNodes - 1), is_closed \in BOOLEAN, is_direct \in BOOLEAN :
            Optimal_laptime_n(m, n, is_closed, is_direct)
    \/ \E m \in ModelNames, s_ \in Meshes, is_closed \in BOOLEAN, is_direct \in BOOLEAN :
            Optimal_laptime_s(m, s_, is_closed, is_direct)
    \/ \E m \in ModelNames, s_ \in Meshes, is_closed \in BOOLEAN, is_direct \in BOOLEAN,
          n_seeds \in 1..MaxNodes :
            Optimal_laptime_seeds(m, s_, is_closed, is_direct, n_seeds)
    \/ \E m \in ModelNames, s_start \in Starts, s_finish \in Finishes,
          n \in 1..(MaxNodes - 1), is_direct \in BOOLEAN, back \in BackOfEmpty :
            Optimal_laptime_range(m, s_start, s_finish, n, is_direct, back)
    \/ FillBounds
    \/ \E sol \in 1..MaxSol, success \in BOOLEAN : Solve(sol, success)
    \/ Export
    \/ RecoverTime
    \/ WriteXml

SpecOL == Init /\ [][NextOL]_vars

-----------------------------------------------------------------------------
(* Properties of the registry *)

CreatingOps == {"create_vehicle_from_xml", "create_vehicle_empty", "create_track_from_xml",
                "create_vector", "create_scalar", "copy_variable", "move_variable"}

\* C1: a creating operation (create_vehicle_from_xml, create_vehicle_empty,
\* create_track_from_xml, create_vector, create_scalar, and copy_variable and
\* move_variable for their target name) called with a new name that is
\* already in one of the five tables fails, and leaves the five tables as
\* they were.
C1_CreateOnTakenNameFails ==
    [][ (ret'.op \in CreatingOps /\ ret'.obs.clash)
            => (ret'.thrown # "none" /\ Reg' = Reg) ]_vars

\* A copy onto a name held by a vector has failed, the vector still there
C1_Witness ==
    /\ ret.op = "copy_variable"
    /\ ret.obs.clash
    /\ ret.thrown = "fastest_lap"
    /\ table_vector # EmptyTable
    /\ table_scalar # EmptyTable

\* C2: after copy_variable(a, b); move_variable(b, c); delete_variable(c),
\* started with a present and b and c fresh, there is no entry under b or c,
\* and a is in the table it was in with the value it had.
C2_CopyMoveDelete ==
    law.stage = 3 =>
        /\ TablesOf(Reg, law.b) = {}
        /\ TablesOf(Reg, law.c) = {}
        /\ TablesOf(Reg, law.a) = TablesOf(law.snap, law.a)
        /\ \A t \in TablesOf(Reg, law.a) : Reg[t][law.a] = law.snap[t][law.a]

\* The sequence has run on an f1 vehicle with three different names
C2_Witness ==
    /\ law.stage = 3
    /\ law.b # law.c
    /\ law.a \in DOMAIN table_f1_3dof
    /\ ret.op = "delete_variable"
    /\ ret.thrown = "none"

VehicleOps == {"vehicle_get_property", "vehicle_save_as_xml", "vehicle_set_parameter",
               "vehicle_declare_new_constant_parameter",
               "vehicle_declare_new_variable_parameter", "propagate_vehicle", "gg_diagram",
               "optimal_laptime", "vehicle_change_track"}

\* C3: every public operation that takes a vehicle name fails when the name
\* is in neither vehicle table, and vehicle_set_parameter on a kart either
\* fails or changes the kart.
C3_UnknownVehicleFails ==
    [][ ret'.op \in VehicleOps =>
            /\ ret'.obs.hit = "none" => ret'.thrown # "none"
            /\ (ret'.op = "vehicle_set_parameter" /\ ret'.obs.hit = "kart")
                    => (ret'.thrown # "none" \/ table_kart_6dof' # table_kart_6dof) ]_vars

\* vehicle_set_parameter on a name in neither vehicle table has returned
\* normally
C3_Witness ==
    /\ ret.op = "vehicle_set_parameter"
    /\ ret.obs.hit = "none"
    /\ ret.thrown = "none"

Exceptions == {"fastest_lap", "lion", "std"}
TagOf(e) ==
    CASE e = "fastest_lap" -> "[Fastest lap exception] -> "
      [] e = "lion"        -> "[Lion exception] -> "
      [] e = "std"         -> "[C++ exception] -> "

\* C4: a failure raised inside a public operation (a core, a library or a
\* general exception) produces exactly one diagnostic line, tagged with its
\* origin, and reaches the caller as a failure; an operation in which
\* nothing is raised prints no diagnostic line.
C4_OneTaggedLineAndFailure ==
    /\ ret.raised \in Exceptions =>
            /\ ret.lines = << TagOf(ret.raised) >>
            /\ ret.thrown \in Exceptions
    /\ ret.raised = "none" => (ret.lines = << >> /\ ret.thrown = "none")

\* A library failure inside propagate_vehicle has reached the caller
C4_Witness ==
    /\ ret.op = "propagate_vehicle"
    /\ ret.raised = "lion"
    /\ Len(ret.lines) = 1
    /\ ret.thrown = "lion"

\* C5: print_variable_to_string fails whenever the text and its terminating
\* NUL do not fit in n_char bytes, and never writes more than n_char bytes.
C5_PrintFitsBuffer ==
    ret.op = "print_variable_to_string" =>
        /\ ret.obs.size + 1 > ret.obs.n_char => ret.thrown # "none"
        /\ ret.written <= ret.obs.n_char

\* The text of a scalar is exactly n_char characters long and the call has
\* returned normally after writing n_char + 1 bytes
C5_Witness ==
    /\ ret.op = "print_variable_to_string"
    /\ ret.obs.n_char = ret.obs.size
    /\ ret.obs.size > 0
    /\ ret.thrown = "none"
    /\ ret.written = ret.obs.n_char + 1

\* C6: the warm-start cache of each vehicle type holds the trajectory of the
\* most recent optimal_laptime call on a vehicle of that type that asked to
\* save and returned without error; every other call leaves it as it was.
C6_CacheIsLastSavedRun == warm_start = saved

\* Both caches hold a run, of different meshes, and a later call that asked
\* to save has failed
C6_Witness ==
    /\ warm_start["kart"].n = 2
    /\ warm_start["f1"].n = 3
    /\ ret.op = "optimal_laptime"
    /\ ret.obs.save_warm_start
    /\ ret.obs.hit = "f1"
    /\ ret.thrown = "std"

-----------------------------------------------------------------------------
(* Properties of the optimal-laptime problem *)

\* The time derivative of node k's state at the arclength of node k
dtimeds_at(k) == dtimeds_of(M, opt.q[k], At(opt.s, k))

\* C7: on a closed track, direct or derivative, the reported laptime is the
\* time of the last node plus the trapezoidal wrap-around term
\* (L - s.back()) * (dtimeds_last + dtimeds_first) / 2.
C7_LaptimeAddsTrapezoidalWrap ==
    (opt.pc = "done" /\ opt.is_closed) =>
        opt.laptime = opt.q[opt.n_points - 1][M.ITIME]
                      + ((Road.track_length - Back(opt.s))
                         * (dtimeds_at(opt.n_points - 1) + dtimeds_at(0))) \div 2

\* A closed lap solved by the direct transcription whose last element, from
\* the last node back to the first, has a length
C7_Witness ==
    /\ opt.pc = "done" /\ opt.is_closed /\ opt.is_direct
    /\ Road.track_length - Back(opt.s) > 0
    /\ opt.laptime > opt.q[opt.n_points - 1][M.ITIME]

\* C8: after a successful solve the time of every node i >= 1 is the time of
\* node i-1 plus (s[i] - s[i-1]) * (dtimeds[i-1] + dtimeds[i]) / 2, with
\* dtimeds[k] taken at node k's state and at arclength s[k], node 0 included.
C8_TimeIsTrapezoidalInArclength ==
    opt.pc = "done" =>
        \A i \in 1..(opt.n_points - 1) :
            opt.q[i][M.ITIME] = opt.q[i - 1][M.ITIME]
                                + ((At(opt.s, i) - At(opt.s, i - 1))
                                   * (dtimeds_at(i - 1) + dtimeds_at(i))) \div 2

\* A solved open stretch that starts after the origin of the road
C8_Witness ==
    /\ opt.pc = "done" /\ ~opt.is_closed /\ opt.n_points >= 2
    /\ At(opt.s, 0) > 0
    /\ opt.q[1][M.ITIME] > opt.q[0][M.ITIME]

\* C9: the entry of the decision vector the functor loads into q_i[IN] is the
\* one bounded by the track limits at s_i; every other entry carries the
\* model bound of the variable the functor loads from it; the time state is
\* loaded from no entry.
C9_BoundsFollowLoads ==
    opt.pc \in {"exported", "done"} =>
        /\ Len(nlp.x_bounds) = Len(nlp.loads)
        /\ \A k \in 1..Len(nlp.loads) :
            LET into == nlp.loads[k] IN
            /\ ~(into.kind = "q" /\ into.j = M.ITIME)
            /\ IF into.kind = "q" /\ into.j = M.IN_
               THEN nlp.x_bounds[k] = XBound("track_limits", into.node, M.IN_)
               ELSE nlp.x_bounds[k] = into

\* A problem of at least two nodes with decision variables whose functor has
\* loaded the lateral offset of the last node
C9_Witness ==
    /\ opt.pc = "exported" /\ opt.n_points >= 3
    /\ \E k \in 1..Len(nlp.loads) : nlp.loads[k] = XBound("q", opt.n_points - 1, M.IN_)
    /\ \E k \in 1..Len(nlp.x_bounds) :
            nlp.x_bounds[k] = XBound("track_limits", opt.n_points - 1, M.IN_)

\* C10: in both transcriptions, open or closed, the bounds of constraint k
\* are (0, 0) exactly when the functor writes an equality at fg[k+1], and are
\* the model's bounds of tire inequality j exactly when the functor writes
\* tire inequality j there; as many bounds are filled as constraints written.
C10_ConstraintBoundsFollowFunctor ==
    opt.pc \in {"exported", "done"} =>
        /\ Len(nlp.c_bounds) = Len(nlp.fg)
        /\ \A k \in 1..Len(nlp.fg) :
            /\ (nlp.c_bounds[k] = Equality) <=> (nlp.fg[k].kind = "equality")
            /\ \A j \in 0..(N_OL_EXTRA_CONSTRAINTS(M) - 1) :
                (nlp.c_bounds[k] = ExtraBound(j))
                    <=> (nlp.fg[k] = Tire(nlp.fg[k].node, At(M.extra, j)))

\* A derivative problem on a closed track whose functor has written tire
\* inequalities and control equations, the periodic element included
C10_Witness ==
    /\ opt.pc = "exported" /\ ~opt.is_direct /\ opt.is_closed /\ opt.n_points >= 2
    /\ \E k \in 1..Len(nlp.fg) : nlp.fg[k] = Tire(0, At(M.extra, 0))
    /\ \E k \in 1..Len(nlp.fg) : nlp.fg[k] = Residual("u", 0, 0)
    /\ \E k \in 1..Len(nlp.c_bounds) : nlp.c_bounds[k] = ExtraBound(0)

-----------------------------------------------------------------------------
(* Properties of the run of compute_optimal_laptime *)

\* C11: in an open simulation node 0 of the solved trajectory is the start
\* the options configure: q[0] = q_start, qa[0] = qa_start and
\* u[0][j] = u_start[j] for every control j whatever its type, and no value
\* of node 0 is a variable the solver set.
C11_OpenStartIsConfiguredStart ==
    (sim.exc = "none" /\ sim.traj.valid /\ ~sim.traj.is_closed) =>
        /\ sim.traj.q = sim.conf.q_start
        /\ sim.traj.qa = sim.conf.qa_start
        /\ \A j \in 1..NCONTROL(sim.t) :
            /\ sim.traj.u[j].front = sim.conf.u_start[j]
            /\ sim.traj.u[j].front.src # "solver"
        /\ sim.traj.q.src # "solver" /\ sim.traj.qa.src # "solver"

\* An open simulation started cold from an initial condition has been solved
C11_Witness ==
    /\ sim.exc = "none" /\ sim.traj.valid /\ ~sim.traj.is_closed
    /\ ~sim.conf.warm_start /\ sim.conf.set_initial_condition
    /\ sim.traj.q = sim.conf.q_start /\ sim.traj.q.val > 0

\* C12: when the solver returns any status but success, optimal_laptime fails
\* with an error, inserts no output variable into the scalar or the vector
\* table, writes no XML file and leaves the warm-start cache as it was.
C12_SolverFailureLeavesNoTrace ==
    [][(ret'.op = "optimal_laptime" /\ ret'.obs.solver # "none") =>
            /\ ret'.thrown \in {"fastest_lap", "lion", "std"}
            /\ table_scalar' = table_scalar
            /\ table_vector' = table_vector
            /\ ~ret'.obs.xml
            /\ warm_start' = warm_start]_vars

\* The solver failed in a call that asked for output variables, for the XML
\* file and for the run to be cached
C12_Witness ==
    /\ ret.op = "optimal_laptime" /\ ret.obs.solver = "std" /\ ret.thrown = "std"
    /\ ret.obs.variables # << >> /\ ret.obs.write_xml /\ ret.obs.save_warm_start

\* The document holds value v for node i under the child of component j of
\* the state ("q"), the algebraic state ("qa") or the controls ("u")
Holds(doc, of, j, i, v) ==
    \E c \in 1..Len(doc) :
        doc[c].of = of /\ doc[c].j = j /\ Len(doc[c].values) > i /\ At(doc[c].values, i) = v

\* C13: the document xml() makes of a solved trajectory holds, for every
\* node, every component of q, of qa and of u, so that reading it back
\* restores q, qa and u.
C13_XmlHoldsTheTrajectory ==
    opt.pc = "written" =>
        \A i \in 0..(opt.n_points - 1) :
            /\ \A j \in 0..(M.NSTATE - 1) : Holds(opt.doc, "q", j, i, opt.q[i][j])
            /\ \A j \in 0..(M.NALGEBRAIC - 1) : Holds(opt.doc, "qa", j, i, opt.qa[i][j])
            /\ \A j \in 0..(M.NCONTROL - 1) : Holds(opt.doc, "u", j, i, opt.u[i][j])

\* The document of a solved trajectory of a model with algebraic states,
\* holding the states and the controls of its last node
C13_Witness ==
    /\ opt.pc = "written" /\ M.NALGEBRAIC > 0 /\ opt.n_points >= 2
    /\ \A j \in 0..(M.NSTATE - 1) :
            Holds(opt.doc, "q", j, opt.n_points - 1, opt.q[opt.n_points - 1][j])
    /\ \A j \in 0..(M.NCONTROL - 1) :
            Holds(opt.doc, "u", j, opt.n_points - 1, opt.u[opt.n_points - 1][j])

\* The output variables a call of optimal_laptime asked for
Asked(r) == {r.obs.variables[k] : k \in 1..Len(r.obs.variables)}

\* C14: asking for a property the vehicle model does not support
\* (brake-bias, Fz_* on a kart), through vehicle_get_property or as an output
\* variable of optimal_laptime, fails with an error; asking for a name outside
\* the recognised set fails with an error for both models.
C14_UnsupportedPropertyFails ==
    [][ /\ (ret'.op = "vehicle_get_property" /\ ret'.obs.hit = "kart"
                /\ ret'.obs.property \in {"brake-bias", "Fz_fl"}) => ret'.thrown # "none"
        /\ (ret'.op = "vehicle_get_property" /\ ret'.obs.hit \in {"kart", "f1"}
                /\ ret'.obs.property = "nosuch") => ret'.thrown # "none"
        /\ (ret'.op = "optimal_laptime" /\ ret'.obs.hit = "kart"
                /\ "brake-bias" \in Asked(ret')) => ret'.thrown # "none"
        /\ (ret'.op = "optimal_laptime" /\ ret'.obs.hit \in {"kart", "f1"}
                /\ "nosuch" \in Asked(ret')) => ret'.thrown # "none" ]_vars

\* optimal_laptime on a kart that asked for brake-bias has failed with the
\* library's own error
C14_Witness ==
    /\ ret.op = "optimal_laptime" /\ ret.obs.hit = "kart"
    /\ "brake-bias" \in Asked(ret) /\ ret.obs.solver = "none"
    /\ ret.thrown = "fastest_lap"

\* The entry an output variable of the call that has just returned is stored
\* under, and whether it is a scalar one
OutputKey(r, i) == r.prefix \o r.variables[i]
IsScalarOutput(v) == v = "laptime" \/ is_integral_quantity(v)

\* What the tables hold for every output variable of a call that returned
\* without error
OutputsStored(r) ==
    \A i \in 1..Len(r.variables) :
        IF IsScalarOutput(r.variables[i])
            THEN /\ OutputKey(r, i) \in DOMAIN table_scalar'
                 /\ OutputKey(r, i) \notin DOMAIN table_vector'
            ELSE /\ OutputKey(r, i) \in DOMAIN table_vector'
                 /\ OutputKey(r, i) \notin DOMAIN table_scalar'
                 /\ Len(table_vector'[OutputKey(r, i)]) = r.n_points

\* C15: after an optimal_laptime call that returns without error, every
\* requested output variable v has exactly one entry named prefix + v, in the
\* scalar table for laptime and integral_quantities.*, else in the vector
\* table with n_points values; and a call that asks for an output whose entry
\* is already in the scalar or the vector table fails.
C15_OutputsStoredUnderPrefix ==
    [][ret'.op = "optimal_laptime" =>
            /\ ret'.thrown = "none" => OutputsStored(ret'.obs)
            /\ (\E i \in 1..Len(ret'.obs.variables) :
                    OutputKey(ret'.obs, i) \in DOMAIN table_scalar \cup DOMAIN table_vector)
                => ret'.thrown # "none"]_vars

\* A call with a vehicle and a track that are there has returned without
\* error and has stored an integral quantity under the prefix "run/".
C15_Witness ==
    /\ ret.op = "optimal_laptime"
    /\ ret.thrown = "none"
    /\ ret.obs.hit # "none"
    /\ ret.obs.prefix = "run/"
    /\ ret.obs.variables = << "integral_quantities.energy" >>
    /\ "run/integral_quantities.energy" \in DOMAIN table_scalar
    /\ ret.obs.n_points > 1

\* C16: when the options have the element options/steady_state_speed, the
\* configured steady_state_speed is the value of that element, whether or not
\* the options have options/initial_speed: with it the configuration holds
\* the element's value, and without it the constructor does not fail for the
\* element it lacks.
C16_SteadyStateSpeedIsItsElement ==
    sim.doc.steady_state_speed # 0 =>
        /\ sim.exc = "none" => sim.conf.steady_state_speed = sim.doc.steady_state_speed
        /\ sim.doc.initial_speed = 0 => sim.exc # "lion"

\* The constructor has read a document that has both elements, with
\* different values, and has returned
C16_Witness ==
    /\ sim.doc.steady_state_speed # 0
    /\ sim.doc.initial_speed # 0
    /\ sim.doc.initial_speed # sim.doc.steady_state_speed
    /\ sim.exc = "none"

\* C17: the constructor from (s_start, s_finish, n) fails with an error,
\* before it builds a mesh or solves, whenever s_finish > L or s_start < 0,
\* and its checks read s_start, s_finish and L only, never an element of the
\* arclength vector that is not assigned yet.
C17_RangeIsValidatedFromItsEnds ==
    opt.args.ctor = "range" =>
        /\ (opt.args.s_finish > Road.track_length \/ opt.args.s_start < 0)
                => (opt.pc = "failed" /\ opt.n_points = 0)
        /\ opt.args.reads \subseteq {"s_start", "s_finish", "L"}

\* The constructor was given a start on the road and a finish past its end,
\* and has thrown
C17_Witness ==
    /\ opt.args.ctor = "range"
    /\ opt.args.s_start >= 0
    /\ opt.args.s_finish > Road.track_length
    /\ opt.pc = "failed"
    /\ opt.n_points = 0

\* C18: a closed-track Optimal_laptime constructed from a vector of
\* arclengths, with one seed or with a seed per node, is constructed only if
\* s[0] is 0 and s.back() is below L, and once it is constructed every
\* arclength it stores lies in [0, L), so that the element that wraps around
\* has the length L - s.back() > 0.
C18_ClosedMeshStaysBelowTrackLength ==
    (opt.args.ctor \in {"s", "seeds"} /\ opt.args.is_closed /\ opt.n_points > 0) =>
        /\ opt.args.s[1] = 0
        /\ Back(opt.args.s) < Road.track_length
        /\ \A i \in 1..Len(opt.s) : 0 <= opt.s[i] /\ opt.s[i] < Road.track_length
        /\ Road.track_length - Back(opt.s) > 0

\* A closed track has been constructed with one seed, from arclengths that
\* start at 0 and end below L, and has been solved
C18_Witness ==
    /\ opt.args.ctor = "s"
    /\ opt.args.is_closed
    /\ opt.args.s[1] = 0
    /\ Back(opt.args.s) < Road.track_length
    /\ opt.pc = "done"

\* The tire inequalities of node i are in the constraint vector, in the
\* order of the model, each with the bounds of the model's extra constraint
TireInequalitiesAt(i) ==
    \A j \in 0..(N_OL_EXTRA_CONSTRAINTS(M) - 1) :
        \E k \in 1..Len(nlp.fg) :
            /\ nlp.fg[k] = Tire(i, At(M.extra, j))
            /\ nlp.c_bounds[k] = ExtraBound(j)

\* C19 as the specification states it: for every node i in 0..n_points-1,
\* on an open and on a closed track and in both transcriptions, the
\* constraint vector holds the tire inequalities evaluated at node i, read
\* after the model was last evaluated at the state of node i, with the
\* bounds the model supplies.
C19_TireInequalitiesAtEveryNode ==
    opt.pc \in {"exported", "done", "written"} =>
        \A i \in 0..(opt.n_points - 1) : TireInequalitiesAt(i)

\* C19 as the code has it: the same for every node that holds variables of
\* the problem, that is every node of a closed track and every node but
\* node 0 of an open one; node 0 of an open track has no tire inequality.
C19_TireInequalitiesAtEveryFreeNode ==
    opt.pc \in {"exported", "done", "written"} =>
        /\ \A i \in Offset(opt.is_closed)..(opt.n_points - 1) : TireInequalitiesAt(i)
        /\ ~opt.is_closed => \A k \in 1..Len(nlp.fg) : nlp.fg[k].kind = "tire" =>
                                                            nlp.fg[k].node # 0

\* The functor of an open track has written the tire inequalities of
\* every node after node 0, the last one included
C19_Witness ==
    /\ opt.pc = "exported"
    /\ ~opt.is_closed
    /\ opt.n_points = MaxNodes
    /\ \A i \in 1..(opt.n_points - 1) : TireInequalitiesAt(i)

\* The vehicle of a name, after the call
VehicleAfter(name) ==
    IF name \in DOMAIN table_kart_6dof' THEN table_kart_6dof'[name] ELSE table_f1_3dof'[name]

\* The calls that put a vehicle on a track
PutsOnTrack(r) ==
    \/ r.op \in {"vehicle_change_track", "optimal_laptime"}
    \/ r.op = "propagate_vehicle" /\ r.obs.use_circuit

-----------------------------------------------------------------------------
(* Properties of the outputs of optimal_laptime and of the warm start *)

\* Every name that is in one of the five tables
Defined(reg) == UNION {DOMAIN reg[t] : t \in TableNames}

\* C24: after any sequence of public operations, no name is in more than one
\* of the five tables (so that delete_variable never meets a name that has
\* been multiply defined).
C24_NoNameInTwoTables ==
    \A name \in Defined(Reg) : Cardinality(TablesOf(Reg, name)) <= 1

\* An optimal_laptime call has returned without error and has left a name
\* both in the track table and in the scalar table
C24_Witness ==
    /\ ret.op = "optimal_laptime" /\ ret.thrown = "none"
    /\ "laptime" \in Asked(ret)
    /\ TablesOf(Reg, "laptime") = {"track", "scalar"}

\* The errors the caller of a public operation can be handed
Errors == {"fastest_lap", "lion", "std"}

\* C25: an optimal_laptime call that fails leaves the track, the scalar and
\* the vector table exactly as they were before the call: its outputs are
\* inserted all or none.
C25_FailedCallInsertsNothing ==
    [][(ret'.op = "optimal_laptime" /\ ret'.thrown \in Errors) =>
            /\ table_track' = table_track
            /\ table_scalar' = table_scalar
            /\ table_vector' = table_vector]_vars

\* A call on an f1 car has failed on the unknown name it was asked for after
\* brake-bias, and brake-bias is in the vector table
C25_Witness ==
    /\ ret.op = "optimal_laptime" /\ ret.thrown = "fastest_lap"
    /\ ret.obs.hit = "f1" /\ ret.obs.variables = << "brake-bias", "nosuch" >>
    /\ "brake-bias" \in DOMAIN table_vector

\* C26: in a warm-started optimal_laptime call every per-node read made
\* while the outputs are saved is within the solved trajectory: the process
\* is not ended by the read, and every value the call stores in a vector is
\* a value of a node of the trajectory.
C26_WarmStartedOutputsWithinBounds ==
    [][(ret'.op = "optimal_laptime" /\ ret'.obs.warm_start) =>
            /\ ret'.thrown # "abort"
            /\ \A key \in (DOMAIN table_vector') \ (DOMAIN table_vector) :
                    \A k \in 1..Len(table_vector'[key]) :
                        table_vector'[key][k] = NodeValue]_vars

\* A warm-started call with three nodes, made when the cache of the type
\* held a run of two nodes, has stored a vector of three values
C26_Witness ==
    /\ ret.op = "optimal_laptime" /\ ret.obs.warm_start /\ ret.thrown = "none"
    /\ ret.obs.hit # "none" /\ ret.obs.n_points = 3
    /\ warm_start[ret.obs.hit].n = 2
    /\ ret.obs.variables = << "laptime", "x" >>
    /\ "x" \in DOMAIN table_vector /\ Len(table_vector["x"]) = 3

\* C27: an optimal_laptime call with warm_start = true, made before any call
\* on a vehicle of that type has completed with save_warm_start = true, fails
\* with an error and inserts no output.
C27_WarmStartBeforeAnySaveFails ==
    [][(ret'.op = "optimal_laptime" /\ ret'.obs.warm_start /\ ret'.obs.hit # "none"
            /\ saved[ret'.obs.hit] = EmptyTrajectory) =>
            /\ ret'.thrown \in Errors
            /\ table_scalar' = table_scalar
            /\ table_vector' = table_vector]_vars

\* A warm-started call on a kart that is on a track, with three nodes and
\* outputs asked for, has failed in the constructor: nothing was ever saved
C27_Witness ==
    /\ ret.op = "optimal_laptime" /\ ret.obs.warm_start /\ ret.obs.hit = "kart"
    /\ ret.obs.track_name \in DOMAIN table_track
    /\ saved["kart"] = EmptyTrajectory
    /\ ret.obs.n_points = 3 /\ ret.obs.variables # << >>
    /\ ret.thrown = "std"

-----------------------------------------------------------------------------
(* The circuit preprocessor: its options document, the circuit it builds and
   the outputs of circuit_preprocessor *)

\* Largest number of elements a circuit is asked to have
MaxElements == 3

\* Circuit_preprocessor::Options with its initialisers, in hundredths
Options ==
    [eps_d |-> 10, eps_k |-> 5000000, eps_n |-> 10, eps_c |-> 10,
     maximum_kappa |-> 10, maximum_dkappa |-> 2, maximum_dn |-> 100,
     maximum_distance_find |-> 5000, adaption_aspect_ratio_max |-> 120,
     print_level |-> 0]

\* The children of options/optimization a document may hold, and the value
\* each one is given
OptimizationKeys ==
    {"cost_curvature", "cost_track_limits_smoothness", "cost_track_limits_errors",
     "maximum_kappa", "maximum_dkappa"}
OptimizationValues ==
    [cost_curvature |-> 7, cost_track_limits_smoothness |-> 8,
     cost_track_limits_errors |-> 9, maximum_kappa |-> 11, maximum_dkappa |-> 12]

\* The KML files: the number of coordinates of the boundary each one holds
KmlFiles == {"left.kml", "right.kml", "loop.kml", "nofile.xml"}
read_kml(file) ==
    CASE file = "left.kml"  -> MaxElements + 1
      [] file = "right.kml" -> MaxElements - 1
      [] OTHER              -> MaxElements

\* An element of the options document is << >> when absent, else << value >>;
\* open_track_boundaries_coordinates holds start and finish, which the
\* configuration does not read
has_element(e) == e # << >>
get_element(e) == e[1]

\* The document the base of every call: a closed, equally spaced circuit
\* with no optimization option and no output
CircuitDocument ==
    [well_formed |-> TRUE,
     kml_left |-> << "loop.kml" >>, kml_right |-> << "loop.kml" >>,
     mode |-> << "equally-spaced" >>, is_closed |-> << TRUE >>, clockwise |-> << >>,
     open_track_boundaries_coordinates |-> << >>,
     number_of_elements |-> << MaxElements >>,
     mesh_refinement_s |-> << >>, mesh_refinement_ds |-> << >>,
     optimization |-> << >>, print_level |-> << >>,
     xml_file_name |-> << >>, output_variables |-> << >>, insert_table_name |-> << >>]

\* The members of Circuit_preprocessor_configuration with their initialisers
DefaultCircuitConfiguration ==
    [kml_file_left |-> "", kml_file_right |-> "", mode |-> "EQUALLY_SPACED",
     clockwise |-> FALSE, is_closed |-> FALSE, n_el |-> 0,
     s_distribution |-> << >>, ds_distribution |-> << >>,
     eps_d |-> Options.eps_d, eps_k |-> Options.eps_k, eps_n |-> Options.eps_n,
     eps_c |-> Options.eps_c, maximum_kappa |-> Options.maximum_kappa,
     maximum_dkappa |-> Options.maximum_dkappa, maximum_dn |-> Options.maximum_dn,
     maximum_distance_find |-> Options.maximum_distance_find,
     adaption_aspect_ratio_max |-> Options.adaption_aspect_ratio_max,
     print_level |-> 0,
     save_to_table |-> FALSE, save_as_xml |-> FALSE, output_variables_to_table |-> FALSE,
     xml_file_name |-> "", output_variables_prefix |-> "", insert_table_name |-> ""]

\* The value of child key of options/optimization, or the value the member
\* has
Optimization(doc, key, member) ==
    IF has_element(doc.optimization) /\ key \in DOMAIN get_element(doc.optimization)
    THEN get_element(doc.optimization)[key] ELSE member

\* Circuit_preprocessor_configuration(options)
Circuit_preprocessor_configuration(doc) ==
    LET d == DefaultCircuitConfiguration
        mode_str == get_element(doc.mode)
        mode == IF mode_str = "equally-spaced" THEN "EQUALLY_SPACED" ELSE "REFINED"
        is_closed == get_element(doc.is_closed)
        conf ==
            [d EXCEPT
                !.kml_file_left = get_element(doc.kml_left),
                !.kml_file_right = get_element(doc.kml_right),
                !.mode = mode,
                !.is_closed = is_closed,
                !.clockwise = IF has_element(doc.clockwise) THEN get_element(doc.clockwise)
                              ELSE @,
                !.n_el = IF mode = "EQUALLY_SPACED" THEN get_element(doc.number_of_elements)
                         ELSE @,
                !.s_distribution = IF mode = "REFINED" THEN get_element(doc.mesh_refinement_s)
                                   ELSE @,
                !.ds_distribution = IF mode = "REFINED" THEN get_element(doc.mesh_refinement_ds)
                                    ELSE @,
                !.eps_k = Optimization(doc, "cost_curvature", @),
                !.eps_n = Optimization(doc, "cost_track_limits_smoothness", @),
                !.eps_d = Optimization(doc, "cost_track_limits_errors", @),
                !.eps_c = Optimization(doc, "cost_curvature", @),
                !.maximum_kappa = Optimization(doc, "maximum_kappa", @),
                !.maximum_dkappa = Optimization(doc, "maximum_dkappa", @),
                !.print_level = IF has_element(doc.print_level)
                                THEN get_element(doc.print_level) ELSE @,
                !.save_as_xml = has_element(doc.xml_file_name),
                !.xml_file_name = IF has_element(doc.xml_file_name)
                                  THEN get_element(doc.xml_file_name) ELSE @,
                !.output_variables_to_table = has_element(doc.output_variables),
                !.output_variables_prefix =
                    IF has_element(doc.output_variables)
                    THEN get_element(get_element(doc.output_variables)) ELSE @,
                !.save_to_table = has_element(doc.insert_table_name),
                !.insert_table_name = IF has_element(doc.insert_table_name)
                                      THEN get_element(doc.insert_table_name) ELSE @]
    IN  IF ~doc.well_formed THEN [exc |-> "lion", conf |-> d]
        ELSE IF ~has_element(doc.kml_left) THEN [exc |-> "fastest_lap", conf |-> d]
        ELSE IF ~has_element(doc.kml_right) THEN [exc |-> "fastest_lap", conf |-> d]
        ELSE IF ~has_element(doc.mode) THEN [exc |-> "fastest_lap", conf |-> d]
        ELSE IF mode_str \notin {"equally-spaced", "refined"}
            THEN [exc |-> "fastest_lap", conf |-> d]
        ELSE IF ~has_element(doc.is_closed) THEN [exc |-> "fastest_lap", conf |-> d]
        ELSE IF ~is_closed /\ mode = "REFINED" THEN [exc |-> "fastest_lap", conf |-> d]
        ELSE IF mode = "EQUALLY_SPACED" /\ ~has_element(doc.number_of_elements)
            THEN [exc |-> "fastest_lap", conf |-> d]
        ELSE IF mode = "REFINED" /\ ~has_element(doc.mesh_refinement_s)
            THEN [exc |-> "fastest_lap", conf |-> d]
        ELSE IF mode = "REFINED" /\ ~has_element(doc.mesh_refinement_ds)
            THEN [exc |-> "fastest_lap", conf |-> d]
        ELSE IF has_element(doc.output_variables)
                /\ ~has_element(get_element(doc.output_variables))
            THEN [exc |-> "fastest_lap", conf |-> d]
        ELSE [exc |-> "none", conf |-> conf]

\* A Circuit_preprocessor: the options it was built with, the number of its
\* mesh nodes (the size of s, r_centerline, r_left, r_right, kappa, nl, nr)
\* and the numbers of measured points of its two boundaries
NoCircuit ==
    [built |-> FALSE, is_closed |-> FALSE, n_elements |-> 0, n_points |-> 0,
     options |-> Options, left_measured |-> 0, right_measured |-> 0]

\* preprocessor_options of circuit_preprocessor
preprocessor_options(conf) ==
    [Options EXCEPT !.eps_d = conf.eps_d, !.eps_k = conf.eps_k, !.eps_n = conf.eps_n,
                    !.eps_c = conf.eps_c, !.maximum_kappa = conf.maximum_kappa,
                    !.maximum_dkappa = conf.maximum_dkappa, !.maximum_dn = conf.maximum_dn,
                    !.maximum_distance_find = conf.maximum_distance_find,
                    !.adaption_aspect_ratio_max = conf.adaption_aspect_ratio_max,
                    !.print_level = conf.print_level]

\* The constructor for closed circuits, from the number of elements
Circuit_preprocessor_n_el(left, right, opts, n_el) ==
    [built |-> TRUE, is_closed |-> TRUE, n_elements |-> n_el, n_points |-> n_el,
     options |-> opts, left_measured |-> read_kml(left), right_measured |-> read_kml(right)]

\* The constructor for closed circuits, from an arclength distribution: one
\* node for each of its breakpoints
Circuit_preprocessor_refined(left, right, opts, s_distribution, ds_distribution) ==
    [built |-> TRUE, is_closed |-> TRUE, n_elements |-> Len(s_distribution),
     n_points |-> Len(s_distribution), options |-> opts,
     left_measured |-> read_kml(left), right_measured |-> read_kml(right)]

\* The constructor for open circuits
Circuit_preprocessor_open(left, right, opts, n_el) ==
    [built |-> TRUE, is_closed |-> FALSE, n_elements |-> n_el, n_points |-> n_el + 1,
     options |-> opts, left_measured |-> read_kml(left), right_measured |-> read_kml(right)]

\* (2) of circuit_preprocessor: the constructor the mode selects
construct_circuit(conf) ==
    IF conf.mode = "EQUALLY_SPACED" THEN
        IF conf.is_closed
        THEN [exc |-> "none",
              circuit |-> Circuit_preprocessor_n_el(conf.kml_file_left, conf.kml_file_right,
                                                    preprocessor_options(conf), conf.n_el)]
        ELSE [exc |-> "fastest_lap", circuit |-> NoCircuit]
    ELSE [exc |-> "none",
          circuit |-> Circuit_preprocessor_refined(conf.kml_file_left, conf.kml_file_right,
                          preprocessor_options(conf), conf.s_distribution,
                          conf.ds_distribution)]

\* The track table_track keeps for a circuit, and the preprocessor of a
\* track: tracks 1 and 2 are the ones of the track files
Track_of(circuit) == MaxElements + circuit.n_points
get_preprocessor(track) ==
    [n_points |-> IF track <= 2 THEN track + 1 ELSE track - MaxElements]

\* The vectors (3.3) stores, in its order, and the sequence each is copied
\* from
OutputVectors ==
    << "arclength", "centerline/x", "centerline/y", "left/x", "left/y", "right/x",
       "right/y", "left_measured/x", "left_measured/y", "right_measured/x",
       "right_measured/y", "kappa", "nl", "nr" >>
copied_size(circuit, name) ==
    IF name \in {"left_measured/x", "left_measured/y"} THEN circuit.left_measured
    ELSE IF name \in {"right_measured/x", "right_measured/y"} THEN circuit.right_measured
    ELSE circuit.n_points

\* std::vector<scalar> v(size) filled by std::transform from a sequence of
\* copied values: the values are the positions in the sequence, an entry
\* that was not written keeps 0
transform(copied, size) == [i \in 1..size |-> IF i <= copied THEN i ELSE 0]

\* (3.3) from vector k on.  std::transform into a vector that is shorter than
\* the sequence writes past its end: the process ends (crash) or goes on
RECURSIVE save_circuit_vectors(_, _, _, _, _)
save_circuit_vectors(reg, prefix, circuit, k, crash) ==
    IF k > Len(OutputVectors) THEN Done(reg)
    ELSE
        LET name == OutputVectors[k]
            key == prefix \o name
            size == circuit.n_points
            copied == copied_size(circuit, name)
        IN  IF key \in DOMAIN reg.vector THEN Raise(reg, "fastest_lap")
            ELSE IF copied > size /\ crash THEN Raise(reg, "abort")
            ELSE save_circuit_vectors(
                    [reg EXCEPT !.vector = Insert(@, key, transform(copied, size))],
                    prefix, circuit, k + 1, crash)

\* circuit_preprocessor(options)
circuit_preprocessor(reg, doc, crash) ==
    LET c == Circuit_preprocessor_configuration(doc)
        conf == c.conf
        b == construct_circuit(conf)
        r1 == IF conf.save_to_table
              THEN [reg EXCEPT !.track = Insert(@, conf.insert_table_name, Track_of(b.circuit))]
              ELSE reg
        r3 == IF conf.output_variables_to_table
              THEN save_circuit_vectors(r1, conf.output_variables_prefix, b.circuit, 1, crash)
              ELSE Done(r1)
    IN  IF c.exc # "none"
            THEN [reg |-> reg, exc |-> c.exc, conf |-> conf, circuit |-> NoCircuit, xml |-> FALSE]
        ELSE IF ~Readable(conf.kml_file_left) \/ ~Readable(conf.kml_file_right)
            THEN [reg |-> reg, exc |-> "lion", conf |-> conf, circuit |-> NoCircuit,
                  xml |-> FALSE]
        ELSE IF b.exc # "none"
            THEN [reg |-> reg, exc |-> b.exc, conf |-> conf, circuit |-> NoCircuit,
                  xml |-> FALSE]
        ELSE IF conf.save_to_table /\ conf.insert_table_name \in DOMAIN reg.track
            THEN [reg |-> reg, exc |-> "fastest_lap", conf |-> conf, circuit |-> b.circuit,
                  xml |-> FALSE]
        ELSE [reg |-> r3.reg, exc |-> r3.exc, conf |-> conf, circuit |-> b.circuit,
              xml |-> conf.save_as_xml]

-----------------------------------------------------------------------------
(* Downloading a vector and the data of a track *)

\* The caller's buffer of n values before the call: no value is 0 once
\* written, but for the entries std::transform left unwritten
Untouched(n) == [i \in 1..n |-> 0]

\* static_cast<size_t>(n) of a negative n is larger than any size
SizeTEquals(n, size) == n >= 0 /\ n = size

\* A download that copies whatever is stored
download_vector_unchecked(reg, n, name) ==
    IF name \notin DOMAIN reg.vector THEN [exc |-> "fastest_lap", data |-> Untouched(n)]
    ELSE [exc |-> "none", data |-> reg.vector[name]]

download_vector(reg, n, name) ==
    IF name \notin DOMAIN reg.vector THEN [exc |-> "fastest_lap", data |-> Untouched(n)]
    ELSE IF ~SizeTEquals(n, Len(reg.vector[name]))
        THEN [exc |-> "fastest_lap", data |-> Untouched(n)]
    ELSE [exc |-> "none", data |-> reg.vector[name]]

\* track_variable_map and track_vector_map: the names track_download_data
\* knows
track_variable_map ==
    {"arclength", "heading-angle", "curvature", "distance-left-boundary",
     "distance-right-boundary"}
track_vector_map == {"centerline", "left", "right"}
is_found(variable_name) ==
    \/ variable_name \in track_variable_map
    \/ \E var_name \in track_vector_map :
            variable_name = var_name \o ".x" \/ variable_name = var_name \o ".y"

\* The values of a variable of a preprocessor, one for each node
var_data(preprocessor) == [i \in 1..preprocessor.n_points |-> i]

track_download_data(reg, track_name, n, variable_name) ==
    IF track_name \notin DOMAIN reg.track
        THEN [exc |-> "fastest_lap", data |-> Untouched(n)]
    ELSE
        LET preprocessor == get_preprocessor(reg.track[track_name])
        IN  IF ~SizeTEquals(n, preprocessor.n_points)
                THEN [exc |-> "fastest_lap", data |-> Untouched(n)]
            ELSE IF is_found(variable_name)
                THEN [exc |-> "none", data |-> var_data(preprocessor)]
            ELSE [exc |-> "fastest_lap", data |-> Untouched(n)]

-----------------------------------------------------------------------------
(* The callers of circuit_preprocessor and of the downloads *)

\* The documents that differ in their mandatory inputs
CircuitInputs ==
    { [CircuitDocument EXCEPT !.mode = m, !.is_closed = c, !.number_of_elements = n,
                              !.open_track_boundaries_coordinates = b,
                              !.mesh_refinement_s = s, !.mesh_refinement_ds = s] :
        m \in {<< >>, << "equally-spaced" >>, << "refined" >>, << "spline" >>},
        c \in {<< >>, << TRUE >>, << FALSE >>},
        n \in {<< >>, << MaxElements >>},
        b \in {<< >>, << << 0, 1 >> >>},
        s \in {<< >>, << << 0, 1 >> >>} }
    \cup {[CircuitDocument EXCEPT !.mode = << "refined" >>,
                                  !.mesh_refinement_s = << << 0, 1 >> >>]}

\* The documents that differ in the children of options/optimization
CircuitOptimizations ==
    { [CircuitDocument EXCEPT !.optimization = << [k \in S |-> OptimizationValues[k]] >>] :
        S \in SUBSET OptimizationKeys }

\* The documents that differ in their files and in their outputs; the
\* documents that insert the track are the ones that write the XML file
CircuitOutputs ==
    { [CircuitDocument EXCEPT !.kml_left = l, !.kml_right = r,
                              !.number_of_elements = << n >>,
                              !.output_variables = o, !.insert_table_name = t,
                              !.xml_file_name = IF t = << >> THEN << >>
                                                ELSE << "circuit.xml" >>] :
        l \in {<< >>, << "left.kml" >>, << "loop.kml" >>, << "nofile.xml" >>},
        r \in {<< "right.kml" >>, << "loop.kml" >>},
        n \in {MaxElements - 1, MaxElements},
        o \in {<< >>, << << >> >>, << << "circuit/" >> >>},
        t \in {<< >>, << "x" >>} }

CircuitDocuments ==
    CircuitInputs \cup CircuitOptimizations \cup CircuitOutputs
    \cup {[CircuitDocument EXCEPT !.well_formed = FALSE],
          [CircuitDocument EXCEPT !.kml_right = << >>]}

Call_circuit_preprocessor(doc) ==
    LET c == Circuit_preprocessor_configuration(doc)
        b == construct_circuit(c.conf)
        past_the_end ==
            /\ c.exc = "none" /\ b.exc = "none" /\ c.conf.output_variables_to_table
            /\ \E k \in 1..Len(OutputVectors) :
                    copied_size(b.circuit, OutputVectors[k]) > b.circuit.n_points
    IN  \E crash \in IF past_the_end THEN BOOLEAN ELSE {FALSE} :
        LET r == circuit_preprocessor(Reg, doc, crash)
        IN  /\ Alive
            /\ SetTables(r.reg)
            /\ ret' = Returned("circuit_preprocessor",
                               [doc |-> doc, circuit |-> r.circuit, xml |-> r.xml], r.exc, 0)
            /\ law' = Idle
            /\ UNCHANGED << warm_start, saved, opt, nlp, sim >>

\* The size of what is stored under the name, -1 when there is nothing
Call_download_vector(n, name) ==
    LET r == download_vector(Reg, n, name)
    IN  /\ Alive
        /\ ret' = Returned("download_vector",
                           [name |-> name, n |-> n,
                            size |-> IF name \in DOMAIN table_vector
                                     THEN Len(table_vector[name]) ELSE -1,
                            data |-> r.data], r.exc, 0)
        /\ law' = Idle
        /\ UNCHANGED << table_kart_6dof, table_f1_3dof, table_track, table_scalar,
                        table_vector, warm_start, saved, opt, nlp, sim >>

Call_track_download_data(track_name, n, variable_name) ==
    LET r == track_download_data(Reg, track_name, n, variable_name)
    IN  /\ Alive
        /\ ret' = Returned("track_download_data",
                           [track_name |-> track_name, n |-> n,
                            variable_name |-> variable_name,
                            n_points |-> IF track_name \in DOMAIN table_track
                                         THEN get_preprocessor(table_track[track_name]).n_points
                                         ELSE -1,
                            data |-> r.data], r.exc, 0)
        /\ law' = Idle
        /\ UNCHANGED << table_kart_6dof, table_f1_3dof, table_track, table_scalar,
                        table_vector, warm_start, saved, opt, nlp, sim >>

\* The names and sizes the callers of the downloads pass
DownloadNames == {"circuit/arclength", "circuit/left_measured/x", "x"}
DownloadSizes == -1..MaxElements
DownloadVariables == {"arclength", "left.y", "nosuch"}

NextCircuit ==
    \/ \E doc \in CircuitDocuments : Call_circuit_preprocessor(doc)
    \/ \E file \in CircuitFiles : Call_create_track_from_xml("a", file)
    \/ Call_delete_variables
    \/ \E n \in DownloadSizes, name \in DownloadNames : Call_download_vector(n, name)
    \/ \E track_name \in {"a", "x"}, n \in DownloadSizes, variable_name \in DownloadVariables :
            Call_track_download_data(track_name, n, variable_name)

SpecCircuit == Init /\ [][NextCircuit]_vars

-----------------------------------------------------------------------------
(* Properties of the circuit preprocessor and of the downloads *)

\* A document that has every mandatory key of its mode, names files that
\* can be read and asks for no output
Buildable(doc) ==
    /\ doc.well_formed
    /\ has_element(doc.kml_left) /\ Readable(get_element(doc.kml_left))
    /\ has_element(doc.kml_right) /\ Readable(get_element(doc.kml_right))
    /\ has_element(doc.is_closed)
    /\ (~get_element(doc.is_closed) => has_element(doc.open_track_boundaries_coordinates))
    /\ \/ doc.mode = << "equally-spaced" >> /\ has_element(doc.number_of_elements)
       \/ /\ doc.mode = << "refined" >>
          /\ has_element(doc.mesh_refinement_s) /\ has_element(doc.mesh_refinement_ds)
    /\ ~has_element(doc.output_variables) /\ ~has_element(doc.insert_table_name)

\* C21: circuit_preprocessor with is_closed = false, mode equally-spaced and
\* every mandatory key builds an open track: it does not fail because the
\* track is open; only an open track in refined mode is rejected.
C21_OpenEquallySpacedIsBuilt ==
    [][(ret'.op = "circuit_preprocessor" /\ Buildable(ret'.obs.doc)
            /\ ~get_element(ret'.obs.doc.is_closed)) =>
            IF ret'.obs.doc.mode = << "equally-spaced" >>
            THEN /\ ret'.thrown = "none"
                 /\ ret'.obs.circuit.built /\ ~ret'.obs.circuit.is_closed
            ELSE ret'.thrown = "fastest_lap"]_vars

\* The call for an open, equally spaced circuit with its start and finish
\* has failed with the library's own error and has built nothing
C21_Witness ==
    /\ ret.op = "circuit_preprocessor" /\ Buildable(ret.obs.doc)
    /\ ret.obs.doc.is_closed = << FALSE >> /\ ret.obs.doc.mode = << "equally-spaced" >>
    /\ ret.thrown = "fastest_lap" /\ ~ret.obs.circuit.built

\* A download that failed and wrote nothing to the caller's buffer
Rejected(r) == r.thrown \in Errors /\ r.obs.data = Untouched(r.obs.n)

\* C23: download_vector and track_download_data fail, writing nothing to the
\* caller's buffer, whenever the caller's n differs from the stored length
\* (the size of the vector, the n_points of the track); when n matches they
\* write exactly n values, equal to the stored ones.
C23_DownloadsCheckTheSize ==
    [][ /\ (ret'.op = "download_vector" /\ ret'.obs.size # -1) =>
                IF ret'.obs.n # ret'.obs.size THEN Rejected(ret')
                ELSE /\ ret'.thrown = "none"
                     /\ Len(ret'.obs.data) = ret'.obs.n
                     /\ ret'.obs.data = table_vector[ret'.obs.name]
        /\ (ret'.op = "track_download_data" /\ ret'.obs.n_points # -1
                /\ is_found(ret'.obs.variable_name)) =>
                IF ret'.obs.n # ret'.obs.n_points THEN Rejected(ret')
                ELSE /\ ret'.thrown = "none"
                     /\ Len(ret'.obs.data) = ret'.obs.n
                     /\ \A i \in 1..ret'.obs.n :
                            ret'.obs.data[i] =
                                var_data(get_preprocessor(table_track[ret'.obs.track_name]))[i]
      ]_vars

\* A vector of three values was asked for with n = 2: the call has failed
\* and the two entries of the buffer are as they were
C23_Witness ==
    /\ ret.op = "download_vector" /\ ret.obs.size = 3 /\ ret.obs.n = 2
    /\ ret.thrown = "fastest_lap" /\ ret.obs.data = Untouched(2)

\* The output vectors a call has stored, by their position in OutputVectors
StoredOutputs(r, vector) ==
    {k \in 1..Len(OutputVectors) :
        get_element(get_element(r.obs.doc.output_variables)) \o OutputVectors[k]
            \in DOMAIN vector}

\* C29: in circuit_preprocessor every output vector has the length of the
\* sequence copied into it (left_measured/x, left_measured/y,
\* right_measured/x and right_measured/y have one entry for each measured
\* point of their boundary), and no write goes past the end of a vector when
\* the number of measured points differs from the number of mesh nodes.
C29_OutputVectorsHaveTheCopiedLength ==
    [][(ret'.op = "circuit_preprocessor" /\ ret'.obs.circuit.built
            /\ ret'.obs.doc.output_variables = << << "circuit/" >> >>
            /\ DOMAIN table_vector = {}) =>
            /\ ret'.thrown # "abort"
            /\ \A k \in StoredOutputs(ret', table_vector') :
                    Len(table_vector'["circuit/" \o OutputVectors[k]])
                        = copied_size(ret'.obs.circuit, OutputVectors[k])]_vars

\* A call has stored the vectors of a circuit of three nodes whose left
\* boundary has four measured points and whose right boundary has two
C29_Witness ==
    /\ ret.op = "circuit_preprocessor" /\ ret.thrown = "none"
    /\ ret.obs.circuit.n_points = 3
    /\ ret.obs.circuit.left_measured = 4 /\ ret.obs.circuit.right_measured = 2
    /\ "circuit/left_measured/x" \in DOMAIN table_vector
    /\ "circuit/right_measured/y" \in DOMAIN table_vector
    /\ Len(table_vector["circuit/arclength"]) = 3

\* C30: in the configuration of the circuit preprocessor each optimization
\* option sets its own weight only: options/optimization/cost_curvature
\* changes eps_k and leaves eps_c, eps_d and eps_n at their defaults, and
\* every option that is absent leaves its field at the default of
\* Circuit_preprocessor::Options.
C30_EachOptionSetsItsOwnWeight ==
    [][(ret'.op = "circuit_preprocessor" /\ ret'.obs.circuit.built) =>
        LET doc == ret'.obs.doc
            o == ret'.obs.circuit.options
        IN  /\ o.eps_k = Optimization(doc, "cost_curvature", Options.eps_k)
            /\ o.eps_n = Optimization(doc, "cost_track_limits_smoothness", Options.eps_n)
            /\ o.eps_d = Optimization(doc, "cost_track_limits_errors", Options.eps_d)
            /\ o.eps_c = Options.eps_c
            /\ o.maximum_kappa = Optimization(doc, "maximum_kappa", Options.maximum_kappa)
            /\ o.maximum_dkappa = Optimization(doc, "maximum_dkappa", Options.maximum_dkappa)
            /\ o.maximum_dn = Options.maximum_dn
            /\ o.maximum_distance_find = Options.maximum_distance_find
            /\ o.adaption_aspect_ratio_max = Options.adaption_aspect_ratio_max]_vars

\* A circuit was built from a document whose only optimization option is
\* cost_curvature: eps_k has its value, and so has eps_c
C30_Witness ==
    /\ ret.op = "circuit_preprocessor" /\ ret.thrown = "none" /\ ret.obs.circuit.built
    /\ has_element(ret.obs.doc.optimization)
    /\ DOMAIN get_element(ret.obs.doc.optimization) = {"cost_curvature"}
    /\ ret.obs.circuit.options.eps_k = OptimizationValues.cost_curvature
    /\ ret.obs.circuit.options.eps_c = OptimizationValues.cost_curvature
    /\ ret.obs.circuit.options.eps_d = Options.eps_d

-----------------------------------------------------------------------------
(* (2) of vehicle_declare_new_variable_parameter: the alias string unwrapped
   into a vector of aliases.  A string is the sequence of its characters. *)

\* Longest alias string the callers pass
MaxAlias == 4
\* The characters of the alias strings
AliasChars == {"a", "b", " ", ";"}

\* std::string(first, last) over positions first..last-1
Substr(str, first, last) == SubSeq(str, first, last - 1)

\* The first position from start on that holds no space, and the first
\* position after p that holds ';' (0 when there is none)
NonSpaceFrom(str, start) ==
    LET ps == {p \in start..Len(str) : str[p] # " "}
    IN  IF ps = {} THEN 0 ELSE CHOOSE p \in ps : \A o \in ps : p <= o
SemicolonAfter(str, p) ==
    LET qs == {q \in (p + 1)..Len(str) : str[q] = ";"}
    IN  IF qs = {} THEN 0 ELSE CHOOSE q \in qs : \A o \in qs : q <= o

\* std::regex_search(searchStart, end, res, "\\S(.*?);"): the leftmost match
\* starts at the first character that is not a space and is followed by a
\* ';', and ends at the first ';' after it
regex_search(str, searchStart) ==
    LET p == NonSpaceFrom(str, searchStart)
        q == IF p = 0 THEN 0 ELSE SemicolonAfter(str, p)
    IN  [matched |-> p # 0 /\ q # 0, first |-> p, last |-> q]

\* std::regex_replace(str, "^ +| +$|( ) +", "$1"): the spaces at the start
\* and at the end are removed, a run of spaces inside becomes one space
RECURSIVE regex_replace_from(_, _)
regex_replace_from(str, i) ==
    IF i > Len(str) THEN << >>
    ELSE IF str[i] # " " THEN << str[i] >> \o regex_replace_from(str, i + 1)
    ELSE
        LET after == NonSpaceFrom(str, i)
        IN  IF after = 0 THEN << >>
            ELSE IF i = 1 THEN regex_replace_from(str, after)
            ELSE IF after > i + 1 THEN << " " >> \o regex_replace_from(str, after)
            ELSE << " " >> \o regex_replace_from(str, i + 1)
regex_replace(str) == regex_replace_from(str, 1)

\* The loop over the matches and the push_back of what is left
RECURSIVE unwrap_parameter_aliases(_, _, _)
unwrap_parameter_aliases(parameter_alias, searchStart, parameter_aliases) ==
    LET res == regex_search(parameter_alias, searchStart)
    IN  IF res.matched
        THEN unwrap_parameter_aliases(parameter_alias, res.last + 1,
                Append(parameter_aliases, Substr(parameter_alias, res.first, res.last)))
        ELSE Append(parameter_aliases,
                    regex_replace(Substr(parameter_alias, searchStart,
                                         Len(parameter_alias) + 1)))

\* vehicle_declare_new_variable_parameter up to the vector of aliases
Unwrap_parameter_aliases(parameter_alias) ==
    /\ Alive
    /\ ret' = Returned("parameter_aliases",
                       [parameter_alias |-> parameter_alias,
                        parameter_aliases |->
                            unwrap_parameter_aliases(parameter_alias, 1, << >>)],
                       "none", 0)
    /\ UNCHANGED << table_kart_6dof, table_f1_3dof, table_track, table_scalar,
                    table_vector, warm_start, law, saved, opt, nlp, sim >>

\* The alias strings of the callers
AliasStrings == UNION {[1..n -> AliasChars] : n \in 0..MaxAlias}

NextAlias == \E parameter_alias \in AliasStrings : Unwrap_parameter_aliases(parameter_alias)

SpecAlias == Init /\ [][NextAlias]_vars

\* The pieces of a string between its ';', and a piece without the spaces
\* around it
RECURSIVE Pieces(_)
Pieces(str) ==
    LET q == SemicolonAfter(str, 0)
    IN  IF q = 0 THEN << str >>
        ELSE << SubSeq(str, 1, q - 1) >> \o Pieces(SubSeq(str, q + 1, Len(str)))
RECURSIVE Trimmed(_)
Trimmed(str) ==
    IF str = << >> THEN str
    ELSE IF Head(str) = " " THEN Trimmed(Tail(str))
    ELSE IF str[Len(str)] = " " THEN Trimmed(SubSeq(str, 1, Len(str) - 1))
    ELSE str

\* The tokens of an alias string, and the strings whose tokens are not empty
\* and hold no space
Tokens(str) == [k \in 1..Len(Pieces(str)) |-> Trimmed(Pieces(str)[k])]
IsToken(str) == str # << >> /\ \A i \in 1..Len(str) : str[i] # " "

\* C22: for an alias string made of k non-empty tokens separated by ';',
\* with optional spaces around the tokens, vehicle_declare_new_variable_parameter
\* registers exactly those k tokens as aliases, in order, each without the
\* separator and without the spaces around it.
C22_AliasesAreTheTokens ==
    [][(ret'.op = "parameter_aliases"
            /\ \A k \in 1..Len(Tokens(ret'.obs.parameter_alias)) :
                    IsToken(Tokens(ret'.obs.parameter_alias)[k])) =>
            ret'.obs.parameter_aliases = Tokens(ret'.obs.parameter_alias)]_vars

\* The string "a ;b" has been unwrapped into two aliases, the second one
\* being "b"
C22_Witness ==
    /\ ret.op = "parameter_aliases"
    /\ ret.obs.parameter_alias = << "a", " ", ";", "b" >>
    /\ Len(ret.obs.parameter_aliases) = 2
    /\ ret.obs.parameter_aliases[2] = << "b" >>

-----------------------------------------------------------------------------
(* The initial condition of an open simulation: the vectors of table_vector
   copied into q_start, qa_start and u_start *)

\* Longest vector the callers store for an initial condition
MaxVector == 8

\* vehicle_t::vehicle_ad_curvilinear of each vehicle type
vehicle_ad_curvilinear(t) == IF t = "f1" THEN limebeer2014f1 ELSE lot2016kart

\* std::copy(v.cbegin(), v.cend(), a.begin()) into a std::array of size
\* elements that has no initialiser: an element that is not written holds
\* whatever was in memory
copy_into_array(v, size, junk) == [i \in 1..size |-> IF i <= Len(v) THEN v[i] ELSE junk]

\* The branch of Optimal_laptime_configuration for an open simulation whose
\* document names the vectors q, qa and u.  table_vector.at throws
\* std::out_of_range; a copy that is longer than its array writes past the
\* end of the array: the process ends (crash) or goes on
initial_condition(t, vector, q, qa, u, crash, junk) ==
    LET car == vehicle_ad_curvilinear(t)
        none == [q_start |-> << >>, qa_start |-> << >>, u_start |-> << >>,
                 written |-> << 0, 0, 0 >>]
    IN  IF q \notin DOMAIN vector \/ qa \notin DOMAIN vector \/ u \notin DOMAIN vector
            THEN [exc |-> "std", set_initial_condition |-> TRUE, start |-> none]
        ELSE
            LET v_q_start == vector[q]
                v_qa_start == vector[qa]
                v_u_start == vector[u]
                start == [q_start |-> copy_into_array(v_q_start, car.NSTATE, junk),
                          qa_start |-> copy_into_array(v_qa_start, car.NALGEBRAIC, junk),
                          u_start |-> copy_into_array(v_u_start, car.NCONTROL, junk),
                          written |-> << Len(v_q_start), Len(v_qa_start), Len(v_u_start) >>]
            IN  IF crash /\ Len(v_q_start) > car.NSTATE
                    THEN [exc |-> "abort", set_initial_condition |-> TRUE,
                          start |-> [none EXCEPT !.written = << Len(v_q_start), 0, 0 >>]]
                ELSE IF crash /\ Len(v_qa_start) > car.NALGEBRAIC
                    THEN [exc |-> "abort", set_initial_condition |-> TRUE,
                          start |-> [none EXCEPT !.written =
                                        << Len(v_q_start), Len(v_qa_start), 0 >>]]
                ELSE IF crash /\ Len(v_u_start) > car.NCONTROL
                    THEN [exc |-> "abort", set_initial_condition |-> TRUE,
                          start |-> [none EXCEPT !.written = start.written]]
                ELSE [exc |-> "none", set_initial_condition |-> TRUE, start |-> start]

\* The configuration of an open simulation on a vehicle of type t
Configure_open_simulation(t, q, qa, u) ==
    LET car == vehicle_ad_curvilinear(t)
        hold == {q, qa, u} \subseteq DOMAIN table_vector
        sizes == IF hold THEN << Len(table_vector[q]), Len(table_vector[qa]),
                                 Len(table_vector[u]) >>
                 ELSE << -1, -1, -1 >>
        past_the_end == hold /\ (sizes[1] > car.NSTATE \/ sizes[2] > car.NALGEBRAIC
                                 \/ sizes[3] > car.NCONTROL)
        short == hold /\ (sizes[1] < car.NSTATE \/ sizes[2] < car.NALGEBRAIC
                          \/ sizes[3] < car.NCONTROL)
    IN  \E crash \in IF past_the_end THEN BOOLEAN ELSE {FALSE},
           junk \in IF short THEN Vals ELSE {0} :
        LET c == initial_condition(t, table_vector, q, qa, u, crash, junk)
        IN  /\ Alive
            /\ ret' = Returned("Optimal_laptime_configuration",
                               [t |-> t, hold |-> hold, sizes |-> sizes, start |-> c.start],
                               c.exc, 0)
            /\ law' = Idle
            /\ UNCHANGED << table_kart_6dof, table_f1_3dof, table_track, table_scalar,
                            table_vector, warm_start, saved, opt, nlp, sim >>

\* The vectors the callers store: position i holds 2 i, no value of Vals
StartVector == [i \in 1..MaxVector |-> 2 * i]
StartSizes == {0, 2, 3, 4, 6, 7, MaxVector}
StartNames == {"a", "x"}

NextStart ==
    \/ \E name \in StartNames, n \in StartSizes : Call_create_vector(name, n, StartVector)
    \/ \E name \in StartNames : Call_delete_variable(name)
    \/ \E t \in VehicleTypes, q \in StartNames, qa \in StartNames, u \in StartNames :
            Configure_open_simulation(t, q, qa, u)

SpecStart == Init /\ [][NextStart]_vars

\* The sizes of q_start, qa_start and u_start of a vehicle type
ArraySizes(t) ==
    << vehicle_ad_curvilinear(t).NSTATE, vehicle_ad_curvilinear(t).NALGEBRAIC,
       vehicle_ad_curvilinear(t).NCONTROL >>

\* C28: in the configuration of an open simulation, copying the vectors of
\* the initial condition from the vector table into q_start, qa_start and
\* u_start writes at most NSTATE, NALGEBRAIC and NCONTROL elements; a vector
\* whose length differs from the size of its array makes the configuration
\* fail with an error instead of being copied.
C28_InitialConditionFitsItsArrays ==
    [][(ret'.op = "Optimal_laptime_configuration" /\ ret'.obs.hold) =>
            /\ ret'.thrown # "abort"
            /\ \A k \in 1..3 : ret'.obs.start.written[k] <= ArraySizes(ret'.obs.t)[k]
            /\ ret'.obs.sizes # ArraySizes(ret'.obs.t) =>
                    /\ ret'.thrown \in Errors
                    /\ ret'.obs.start.written = << 0, 0, 0 >>]_vars

\* The configuration of an f1 car has copied a vector of eight values into
\* q_start, which has six, and has returned without error
C28_Witness ==
    /\ ret.op = "Optimal_laptime_configuration" /\ ret.obs.t = "f1" /\ ret.obs.hold
    /\ ret.obs.sizes[1] = 8 /\ ret.obs.start.written[1] = 8
    /\ Len(ret.obs.start.q_start) = 6
    /\ ret.thrown = "none"
====
